---- MODULE Spec2Model ----
(***************************************************************************)
(* Model of the auxiliary DevTools server of next-plugin-devtools-json     *)
(* (src/src/index.ts): the DevToolsServer lifecycle, its port retry loop,  *)
(* its graceful shutdown, and the ServerManager singleton that owns it.    *)
(*                                                                         *)
(* Node runs the code on one event loop.  An action is therefore either    *)
(* the synchronous prefix of an API call (up to its first pending await),  *)
(* or one I/O callback (listen result, close callback, shutdown timer)     *)
(* together with the continuations that the callback's promise resolution  *)
(* runs before the next I/O event.  A continuation of an await on an       *)
(* already settled promise is a separate action, because synchronous code  *)
(* of the caller runs between the call and that continuation.              *)
(***************************************************************************)
EXTENDS Integers, Naturals, Sequences, FiniteSets, TLC

\* The fields of the records of the model.  TLC orders the fields of a record
\* by the place where a name is first met, so every record below is written
\* with its fields in this order.
Fields ==
    [actualPort         |-> "withDevToolsJSON: the port its rewrites forward to",
     after              |-> "getOrCreate: the cache directory after the call",
     afterFiles         |-> "rewrites object: the rules applied after the files",
     allow              |-> "response: the Allow header",
     attempts           |-> "tryStartServer: bind attempts that failed so far",
     before             |-> "resolution: the cache as the call found it",
     beforeFiles        |-> "rewrites object: the rules applied before the files",
     body               |-> "response: what res.end was given",
     cause              |-> "ServerError: the message of the underlying error",
     cleanupRegistered  |-> "ServerManager: the termination handlers are installed",
     closing            |-> "listener: server.close was called on it",
     config             |-> "DevToolsServer: its ServerConfig",
     contentType        |-> "response: the Content-Type header",
     copies             |-> "call: how many equal calls are suspended",
     cors               |-> "response: the Access-Control-Allow-Origin header",
     currentPort        |-> "tryStartServer: the candidate port; stop: the handle",
     destination        |-> "rewrite rule: where the request is forwarded to",
     dir                |-> "disk: .next/cache exists",
     dirs               |-> "project: the directories that exist",
     enabled            |-> "DevToolsJSONOptions",
     endpoint           |-> "ServerConfig",
     error              |-> "tryCatch: the exception the function threw",
     exit               |-> "setup: the exit code of the last run",
     exited             |-> "process: it has terminated",
     fallback           |-> "rewrites object: the rules applied last",
     file               |-> "disk: the content of devtools-uuid.json",
     files              |-> "project: the files that exist, with their lines",
     fired              |-> "process: the termination trigger of the last step",
     fn                 |-> "a method of a Result: the callback it is handed",
     form               |-> "rewrites: array, object or none (undefined)",
     fresh              |-> "return: the call constructed a DevToolsServer",
     given              |-> "resolution: the providedUuid argument",
     groups             |-> "rewrites object: its properties",
     handlers           |-> "process: cleanup listeners installed per trigger",
     host               |-> "call, listener: the host given to server.listen",
     initialPort        |-> "ServerConfig",
     inst               |-> "call: the DevToolsServer it works on, 0 for none",
     invoked            |-> "a method of a Result: the arguments its callback was invoked with",
     kind               |-> "NextConfig.rewrites: absent, value, function, plugin",
     lastPort           |-> "PortExhaustedError",
     maxPortAttempts    |-> "ServerConfig",
     method             |-> "request: req.method",
     name               |-> "findNextConfigFile: the name of the config file",
     op                 |-> "call: the method called",
     operation          |-> "ServerError, UUIDError",
     original           |-> "rewrites of the plugin: the rewrites it wraps",
     owner              |-> "listener: the DevToolsServer that bound it",
     path               |-> "destination: the path after the port",
     pc                 |-> "call: the await it is suspended at",
     pending            |-> "start: a bind attempt was issued",
     port               |-> "the port asked for",
     props              |-> "NextConfig: its properties other than rewrites",
     readable           |-> "disk: the cache file can be opened for reading",
     req                |-> "response: the request it answers",
     res                |-> "response: status, headers and body",
     result             |-> "call: the Result it settled with",
     rewrites           |-> "NextConfig: its rewrites property",
     root               |-> "DevToolsJSON: workspace.root",
     rules              |-> "rewrites array: its rules in order",
     scheme             |-> "destination: the protocol of the URL",
     server             |-> "the http.Server, named by the port it holds",
     shutdownTimeoutMs  |-> "ServerConfig",
     source             |-> "rewrite rule: the path it matches",
     state              |-> "DevToolsServer: its ServerState",
     status             |-> "response: res.statusCode",
     tag                |-> "the _tag of an error, ok for a value",
     text               |-> "response: a body that is no JSON",
     thrown             |-> "tryCatch: the function threw",
     tried              |-> "start: the ports startServerOnPort was called with",
     type               |-> "ServerState",
     unhandledRejection |-> "process: a rejected promise had no handler",
     url                |-> "request: req.url",
     uuid               |-> "ServerConfig; the identifier a call or a listener holds",
     value              |-> "ok: the value",
     writable           |-> "disk: the cache directory can be created and written"]

\* ---------------------------------------------------------------- bounds
NumPorts == 2          \* candidate ports modelled, the top of the port range
MaxAttempts == 2       \* largest maxPortAttempts option enumerated
MaxServers == 2        \* DevToolsServer objects constructed in one behaviour
MaxCalls == 2          \* API calls suspended at an await at the same time
MaxInstances == 1      \* DevToolsServer objects a direct caller constructs
MaxProcs == 2          \* processes that resolve an identity for one project root

\* ------------------------------------------------------ program constants
MaxPort == 65535            \* largest port net.Server.listen accepts
EphemeralBase == 49152      \* first port the OS hands out for listen(0)
DefaultPort == 3001
DefaultMaxPortAttempts == 10
DefaultShutdownTimeoutMs == 3000

Undefined == "undefined"
NoPort == -1                \* "no port": undefined where the code holds a number
NoResult == [tag |-> "none"]

Ports == (MaxPort - NumPorts + 1)..MaxPort

\* DEFAULT_CONFIG
DEFAULT_CONFIG ==
    [endpoint |-> "/__devtools_json", maxPortAttempts |-> DefaultMaxPortAttempts,
     port |-> DefaultPort, shutdownTimeoutMs |-> DefaultShutdownTimeoutMs]

CHROME_DEVTOOLS_PATH == "/.well-known/appspecific/com.chrome.devtools.json"

\* The identifiers a caller can provide: one that matches the UUID v4
\* pattern and one that does not.
ValidUuid == "6f1c2d3e-4a5b-4c6d-8e7f-001122334455"
InvalidUuid == "custom-test-uuid"
UuidOptions == {ValidUuid, InvalidUuid}

\* The cache file .next/cache/devtools-uuid.json: absent, or its content.
\* A content is a valid identifier, one followed by a newline, or other text.
NoFile == "no-file"
CachedUuid == "0a1b2c3d-4e5f-4a6b-9c7d-8e9f00112233"
PaddedUuid == "0a1b2c3d-4e5f-4a6b-9c7d-8e9f00112233\n"
Garbage == "not-a-uuid"
Empty == ""
\* what readFileSync decodes from the bytes ff fe
Undecodable == "<ff><fe>"
\* the values crypto.randomUUID returns
Generated == {"11111111-1111-4111-8111-111111111111",
              "22222222-2222-4222-a222-222222222222"}
\* the strings that match the UUID v4 pattern
ValidUuids == {ValidUuid, CachedUuid} \cup Generated
Contents == {CachedUuid, PaddedUuid, Garbage} \cup Generated
\* process.cwd()
ProjectRoot == "/home/user/project"

\* DevToolsJSONOptions: port 0 asks the OS for any free port; maxPortAttempts
\* is not validated, so a negative value reaches the retry loop.
PortOptions == {0} \cup Ports
AttemptOptions == {-1} \cup 1..MaxAttempts
OptionsSet == [maxPortAttempts : AttemptOptions, port : PortOptions, uuid : UuidOptions]

\* options.field ?? default; an option left out is a field the record lacks
Coalesce(options, field, default) ==
    IF field \in DOMAIN options THEN options[field] ELSE default

\* buildServerConfig
buildServerConfig(options) ==
    [endpoint        |-> Coalesce(options, "endpoint", DEFAULT_CONFIG.endpoint),
     initialPort     |-> Coalesce(options, "port", DEFAULT_CONFIG.port),
     maxPortAttempts |-> Coalesce(options, "maxPortAttempts", DEFAULT_CONFIG.maxPortAttempts),
     shutdownTimeoutMs |-> Coalesce(options, "shutdownTimeoutMs",
                                    DEFAULT_CONFIG.shutdownTimeoutMs),
     uuid            |-> Coalesce(options, "uuid", Undefined)]

\* ------------------------------------------------------------- the state
VARIABLES
    servers,     \* sequence of the DevToolsServer objects constructed so far
    manager,     \* the ServerManager singleton: server (0 = null), cleanupRegistered
    calls,       \* the API calls that are suspended at an await
    bound,       \* listeners bound by this process: [owner, port]
    portStatus,  \* the rest of the host: "free", "inuse" or "denied" per port
    returned,    \* the API call that returned in the last step, with its result
    options,     \* the DevToolsJSONOptions that next.config.js passes
    process,     \* the Node process: its cleanup listeners, the last trigger
    disk,        \* the cache directory of the project and the cache file in it
    response,    \* the request handled in the last step, with its response
    env,         \* process.env.NODE_ENV
    nextConfig,  \* the NextConfig that next.config.js passes
    project,     \* the project the setup CLI runs in: directories, files, exit code
    plugin       \* the latest call of withDevToolsJSON: the config it returned,
                 \* the actualPort of its closure, the instance its start awaits;
                 \* and whether a promise of any call was rejected with no handler

vars == <<servers, manager, calls, bound, portStatus, returned, options, process,
          disk, response, env, nextConfig, plugin, project>>

\* --------------------------------------------------------------- results
Ok(v) == [tag |-> "ok", value |-> v]
ServerError(operation, port, cause) ==
    [cause |-> cause, operation |-> operation, port |-> port, tag |-> "ServerError"]
PortExhaustedError(attempts, lastPort) ==
    [attempts |-> attempts, lastPort |-> lastPort, tag |-> "PortExhaustedError"]
UUIDError(operation) == [operation |-> operation, tag |-> "UUIDError"]
\* the promise of the call was rejected: an exception crossed the API
Rejected(cause) == [cause |-> cause, tag |-> "rejected"]

\* ServerState; the http.Server handle of "running" is named by the port its
\* listener really holds
Idle == [port |-> NoPort, server |-> NoPort, type |-> "idle"]
Running(server, port) == [port |-> port, server |-> server, type |-> "running"]
Stopping == [port |-> NoPort, server |-> NoPort, type |-> "stopping"]
Stopped == [port |-> NoPort, server |-> NoPort, type |-> "stopped"]

\* UUIDManager.validate
validate(uuid) ==
    IF uuid \in ValidUuids THEN Ok(uuid) ELSE UUIDError("validate")

\* String.prototype.trim on the content of the cache file
trim(content) == IF content = PaddedUuid THEN CachedUuid ELSE content

\* a resolution that never looks at the cache file
read_miss(d) == UUIDError("read")

\* a read that takes whatever the file holds for the identifier
read_unchecked(d) ==
    IF d.file = NoFile \/ ~d.readable THEN UUIDError("read") ELSE Ok(trim(d.file))

\* UUIDManager.read: existsSync is false or readFileSync throws, or the
\* trimmed content goes through validate
read(d) ==
    IF d.file = NoFile \/ ~d.readable
      THEN UUIDError("read")
      ELSE validate(trim(d.file))

\* writeFileSync creates a file that can be read, and leaves the mode of a
\* file that exists as it is
Created(d) == d.file = NoFile \/ d.readable

\* a generation that hides a failed mkdir or write behind its identifier
createAndPersist_swallow(d, uuid) ==
    IF d.writable
      THEN [after |-> [dir |-> TRUE, file |-> uuid, readable |-> Created(d),
                       writable |-> TRUE],
            result |-> Ok(uuid)]
      ELSE [after |-> d, result |-> Ok(uuid)]

\* a generation that returns its identifier and leaves the cache as it is
createAndPersist_unsaved(d, uuid) ==
    IF d.writable
      THEN [after |-> d, result |-> Ok(uuid)]
      ELSE [after |-> d, result |-> UUIDError("write")]

\* UUIDManager.createAndPersist with uuid the value of crypto.randomUUID:
\* mkdirSync or writeFileSync throws when the directory cannot be written
createAndPersist(d, uuid) ==
    IF d.writable
      THEN [after |-> [dir |-> TRUE, file |-> uuid, readable |-> Created(d),
                       writable |-> TRUE],
            result |-> Ok(uuid)]
      ELSE [after |-> d, result |-> UUIDError("write")]

\* UUIDManager.getOrCreate; `if (providedUuid)` is false for undefined and
\* for the empty string
getOrCreate(d, providedUuid, uuid) ==
    IF providedUuid # Undefined /\ providedUuid # ""
      THEN [after |-> d, result |-> validate(providedUuid)]
    ELSE IF read(d).tag = "ok"
      THEN [after |-> d, result |-> read(d)]
      ELSE createAndPersist(d, uuid)

\* utils.ts getOrCreateUUID with uuid the value of v4(): a given identifier is
\* returned without a test; a failed read and a failed mkdir are caught, a
\* failed writeFile rejects the promise
getOrCreateUUID(d, providedUuid, uuid) ==
    IF providedUuid # Undefined /\ providedUuid # ""
      THEN [after |-> d, result |-> Ok(providedUuid)]
    ELSE IF d.file # NoFile /\ d.readable /\ trim(d.file) \in ValidUuids
      THEN [after |-> d, result |-> Ok(trim(d.file))]
    ELSE IF d.writable
      THEN [after |-> [dir |-> TRUE, file |-> uuid, readable |-> Created(d),
                       writable |-> TRUE],
            result |-> Ok(uuid)]
      ELSE [after |-> d, result |-> Rejected("write")]

\* getPort testing for the wrong state
getPort_starting(s) == IF s.state.type = "starting" THEN s.state.port ELSE NoPort

\* DevToolsServer.getPort
getPort(s) == IF s.state.type = "running" THEN s.state.port ELSE NoPort

\* new DevToolsServer(config, uuidManager)
NewServer(config) == [config |-> config, state |-> Idle]

\* ------------------------------------------------------------ port binder
\* net.Server.listen validates the port before any I/O and throws
\* ERR_SOCKET_BAD_PORT; inside the promise executor of startServerOnPort the
\* throw rejects the promise
listenThrows(port) == port < 0 \/ port > MaxPort

\* the port is held by another program or by a listener of this process
InUse(port) ==
    \/ (port \in Ports /\ portStatus[port] = "inuse")
    \/ \E l \in bound : l.port = port

\* the port the OS hands out for listen(0): one that no listener holds
Ephemeral ==
    CHOOSE p \in EphemeralBase..(EphemeralBase + Cardinality(bound)) :
        \A l \in bound : l.port # p

\* startServerOnPort: the result the listen / error callback resolves with.
\* listen(0) lets the OS pick a free port, and ok carries the port asked for.
startServerOnPort(port) ==
    IF port = 0
      THEN Ok([port |-> port, server |-> Ephemeral])
    ELSE IF InUse(port)
      THEN ServerError("listen", port, "EADDRINUSE")
    ELSE IF portStatus[port] = "denied"
      THEN ServerError("listen", port, "EACCES")
      ELSE Ok([port |-> port, server |-> port])

\* a retry on every listen error
IsAddressInUse_anyError(error) == error.tag = "ServerError"

\* error._tag === "ServerError" && error.cause.message.includes("EADDRINUSE")
IsAddressInUse(error) == error.tag = "ServerError" /\ error.cause = "EADDRINUSE"

\* tryStartServer at the head of its while loop: either the next
\* startServerOnPort is issued (pending) or the loop is over
tryStartServer(config, currentPort, attempts, tried) ==
    IF attempts < config.maxPortAttempts
      THEN IF listenThrows(currentPort)
             THEN [attempts |-> attempts, currentPort |-> currentPort,
                   pending |-> FALSE, result |-> Rejected("ERR_SOCKET_BAD_PORT"),
                   tried |-> Append(tried, currentPort)]
             ELSE [attempts |-> attempts, currentPort |-> currentPort,
                   pending |-> TRUE, result |-> NoResult,
                   tried |-> Append(tried, currentPort)]
      ELSE [attempts |-> attempts, currentPort |-> currentPort, pending |-> FALSE,
            result |-> PortExhaustedError(config.maxPortAttempts, currentPort - 1),
            tried |-> tried]

\* a start() that goes on to bind whatever getOrCreate returned
IdentityFailed_never(uuidResult) == FALSE

\* uuidResult.isErr()
IdentityFailed(uuidResult) == uuidResult.tag # "ok"

\* DevToolsServer.start up to its first pending await, with uuidResult the
\* result of uuidManager.getOrCreate
start(s, uuidResult) ==
    IF s.state.type # "idle"
      THEN [attempts |-> 0, currentPort |-> NoPort, pending |-> FALSE,
            result |-> ServerError("start", NoPort, "Cannot start server in state"),
            tried |-> <<>>]
    ELSE IF IdentityFailed(uuidResult)
      THEN [attempts |-> 0, currentPort |-> NoPort,
            pending |-> FALSE, result |-> uuidResult, tried |-> <<>>]
      ELSE tryStartServer(s.config, s.config.initialPort, 0, <<>>)

\* what the caller of the API gets: startServer maps ok to the port
Deliver(op, result) ==
    IF op = "startServer" /\ result.tag = "ok" THEN Ok(result.value.port) ELSE result

Return(op, inst, fresh, result, tried) ==
    [fresh |-> fresh, inst |-> inst, op |-> op,
     result |-> Deliver(op, result), tried |-> tried]

\* no call returns in this step
NoReturn == [fresh |-> FALSE, inst |-> 0, op |-> "none",
             result |-> NoResult, tried |-> <<>>]

\* no request is handled in this step
NoResponse == [inst |-> 0, req |-> [method |-> "none", url |-> "none"],
               res |-> [status |-> 0]]

\* a server that listens on every interface
ListenHost_wildcard == "0.0.0.0"

\* the host of server.listen(port, "localhost", ...)
ListenHost == "localhost"

\* a call suspended at an await; one that awaits a bind holds the host it
\* gave to listen
Call(op, inst, pc, t, result) ==
    [attempts |-> t.attempts, copies |-> 1, currentPort |-> t.currentPort,
     host |-> IF pc = "binding" THEN ListenHost ELSE Undefined,
     inst |-> inst, op |-> op, pc |-> pc, result |-> result, tried |-> t.tried,
     uuid |-> Undefined]

\* The suspended calls are a bag: calls that are equal in every field are
\* one record that counts them.
Same(cs, c) == {d \in cs : [d EXCEPT !.copies = 1] = c}
Suspend(cs, c) ==
    IF Same(cs, c) = {}
      THEN cs \cup {c}
      ELSE {IF d \in Same(cs, c) THEN [d EXCEPT !.copies = @ + 1] ELSE d : d \in cs}
Resume(cs, c) ==
    IF c.copies > 1
      THEN (cs \ {c}) \cup {[c EXCEPT !.copies = @ - 1]}
      ELSE cs \ {c}

RECURSIVE Pending(_)
Pending(cs) ==
    IF cs = {} THEN 0
    ELSE LET c == CHOOSE d \in cs : TRUE IN c.copies + Pending(cs \ {c})

\* the value tryStartServer is given: uuidResult.unwrap()
unwrap(uuidResult) ==
    IF uuidResult.tag = "ok" THEN uuidResult.value ELSE Undefined

\* the call made of server i: resolve the identity unless the state forbids
\* the start, then issue the bind or complete at once
BeginStart(op, i, fresh, srvs) ==
    \E uuid \in Generated :
        LET id == getOrCreate(disk, srvs[i].config.uuid, uuid)
            t == start(srvs[i], id.result)
        IN
        /\ servers' = srvs
        /\ disk' = IF srvs[i].state.type = "idle" THEN id.after ELSE disk
        /\ IF t.pending
             THEN /\ Pending(calls) < MaxCalls
                  /\ calls' = Suspend(calls,
                                [Call(op, i, "binding", t, NoResult)
                                   EXCEPT !.uuid = unwrap(id.result)])
                  /\ returned' = NoReturn
             ELSE /\ returned' = Return(op, i, fresh, t.result, t.tried)
                  /\ UNCHANGED calls
        /\ UNCHANGED <<bound, portStatus>>

\* the termination triggers of a Node process; process.once is called for
\* the first five
Signals == {"SIGTERM", "SIGINT", "SIGHUP"}
Registered == Signals \cup {"exit", "beforeExit"}
Triggers == Registered \cup {"uncaughtException"}

\* no step of this kind in the last step
Quiet(p) == [p EXCEPT !.fired = "none"]

\* ServerManager.registerCleanupHandlers: process.once(trigger, cleanup)
registerCleanupHandlers(p) ==
    [Quiet(p) EXCEPT !.handlers =
        [t \in Triggers |-> IF t \in Registered THEN p.handlers[t] + 1 ELSE p.handlers[t]]]

\* a startServer that installs its handlers every time
ShouldRegister_always(m) == TRUE

\* if (!this.cleanupRegistered)
ShouldRegister(m) == ~m.cleanupRegistered

\* a startServer that hands the new configuration to the running instance
startServer_reconfigure(config) ==
    IF manager.server # 0 /\ getPort(servers[manager.server]) # NoPort
      THEN /\ returned' = Return("startServer", 0, FALSE,
                                 Ok([port |-> getPort(servers[manager.server])]), <<>>)
           /\ process' = Quiet(process)
           /\ servers' = [servers EXCEPT ![manager.server].config = config]
           /\ UNCHANGED <<manager, calls, bound, portStatus, disk>>
      ELSE /\ Len(servers) < MaxServers
           /\ process' = IF ShouldRegister(manager)
                            THEN registerCleanupHandlers(process) ELSE Quiet(process)
           /\ manager' = [cleanupRegistered |-> TRUE, server |-> Len(servers) + 1]
           /\ BeginStart("startServer", Len(servers) + 1, TRUE,
                         Append(servers, NewServer(config)))

\* ServerManager.startServer
startServer(config) ==
    IF manager.server # 0 /\ getPort(servers[manager.server]) # NoPort
      THEN /\ returned' = Return("startServer", 0, FALSE,
                                 Ok([port |-> getPort(servers[manager.server])]), <<>>)
           /\ process' = Quiet(process)
           /\ UNCHANGED <<servers, manager, calls, bound, portStatus, disk>>
      ELSE /\ Len(servers) < MaxServers
           /\ process' = IF ShouldRegister(manager)
                            THEN registerCleanupHandlers(process) ELSE Quiet(process)
           /\ manager' = [cleanupRegistered |-> TRUE, server |-> Len(servers) + 1]
           /\ BeginStart("startServer", Len(servers) + 1, TRUE,
                         Append(servers, NewServer(config)))

\* The event loop takes the next I/O event, timer or signal only when no
\* continuation of a settled promise is left to run.
LoopIdle == ~\E c \in calls : c.pc = "settled"

\* the listen or error callback of the bind attempt of call c, and the
\* continuations of tryStartServer, start and startServer that it resumes
BindResult(c) ==
    /\ LoopIdle
    /\ c \in calls /\ c.pc = "binding"
    /\ LET r == startServerOnPort(c.currentPort)
           config == servers[c.inst].config
       IN
       IF r.tag = "ok"
         THEN /\ bound' = bound \cup {[closing |-> FALSE, host |-> c.host,
                                       owner |-> c.inst, port |-> r.value.server,
                                       uuid |-> c.uuid]}
              /\ servers' = [servers EXCEPT ![c.inst].state =
                                 Running(r.value.server, r.value.port)]
              /\ calls' = Resume(calls, c)
              /\ returned' = Return(c.op, c.inst, c.op = "startServer", r, c.tried)
       ELSE IF IsAddressInUse(r)
         THEN LET t == tryStartServer(config, c.currentPort + 1, c.attempts + 1, c.tried) IN
              /\ IF t.pending
                   THEN /\ calls' = Suspend(Resume(calls, c),
                                   [Call(c.op, c.inst, "binding", t, NoResult)
                                      EXCEPT !.uuid = c.uuid])
                        /\ returned' = NoReturn
                   ELSE /\ calls' = Resume(calls, c)
                        /\ returned' = Return(c.op, c.inst, c.op = "startServer",
                                              t.result, t.tried)
              /\ UNCHANGED <<servers, bound>>
         ELSE /\ calls' = Resume(calls, c)
              /\ returned' = Return(c.op, c.inst, c.op = "startServer", r, c.tried)
              /\ UNCHANGED <<servers, bound>>
    /\ UNCHANGED <<manager, portStatus>>

\* DevToolsServer.start called on the instance itself
startDirect(i) ==
    /\ i \in 1..Len(servers)
    /\ BeginStart("start", i, FALSE, servers)
    /\ UNCHANGED manager

\* ------------------------------------------------------------- shutdown
NoTry == [attempts |-> 0, currentPort |-> NoPort, tried |-> <<>>]

\* a stop() that also acts on an instance that is stopping
CanStop_stopping(s) == s.state.type \in {"running", "stopping"}

\* the guard of DevToolsServer.stop: this.state.type === "running"
CanStop(s) == s.state.type = "running"

\* DevToolsServer.stop up to its await: a no-op unless running; otherwise
\* the state becomes stopping and gracefulShutdown arms the timer and calls
\* server.close and closeAllConnections
BeginStop(op, i) ==
    /\ Pending(calls) < MaxCalls
    /\ IF ~CanStop(servers[i])
         THEN /\ calls' = Suspend(calls, Call(op, i, "settled", NoTry, Ok(Undefined)))
              /\ UNCHANGED <<servers, bound>>
         ELSE /\ servers' = [servers EXCEPT ![i].state = Stopping]
              /\ bound' = {IF l.port = servers[i].state.server
                              THEN [l EXCEPT !.closing = TRUE] ELSE l : l \in bound}
              /\ calls' = Suspend(calls,
                    Call(op, i, "closing",
                         [NoTry EXCEPT !.currentPort = servers[i].state.server], NoResult))
    /\ returned' = NoReturn
    /\ UNCHANGED portStatus

\* ServerManager.stopServer
stopServer ==
    /\ IF manager.server = 0
         THEN /\ returned' = Return("stopServer", 0, FALSE, Ok(Undefined), <<>>)
              /\ UNCHANGED <<servers, calls, bound, portStatus>>
         ELSE BeginStop("stopServer", manager.server)
    /\ UNCHANGED manager

\* DevToolsServer.stop called on the instance itself
stopDirect(i) ==
    /\ i \in 1..Len(servers)
    /\ BeginStop("stop", i)
    /\ UNCHANGED manager

\* the stop() whose gracefulShutdown promise waits for listener l
Waiting(l) == {c \in calls : c.pc = "closing" /\ c.currentPort = l.port}

\* a stopServer that keeps its reference
Release_keepsReference(op) == manager

\* the continuation of stopServer after `await this.server.stop()`: it
\* releases the reference, whatever it refers to by now
Release(op) == IF op = "stopServer" THEN [manager EXCEPT !.server = 0] ELSE manager

\* stop() of call c sets the state to stopped, on its try and on its catch
\* branch, and the caller of c resumes with the result
Settle(c, result) ==
    /\ calls' = Resume(calls, c)
    /\ servers' = [servers EXCEPT ![c.inst].state = Stopped]
    /\ manager' = Release(c.op)
    /\ returned' = Return(c.op, c.inst, FALSE, result, <<>>)

\* the callback of server.close: the listener is gone; clearTimeout; the
\* promise of gracefulShutdown resolves unless the timer rejected it before.
\* (The callback gets an error only for a server that was not listening,
\* which a running state never holds.)
closeCallback(l) ==
    /\ LoopIdle
    /\ l \in bound /\ l.closing
    /\ bound' = bound \ {l}
    /\ IF Waiting(l) # {}
         THEN \E c \in Waiting(l) : Settle(c, Ok(Undefined))
         ELSE /\ returned' = NoReturn
              /\ UNCHANGED <<servers, manager, calls>>
    /\ UNCHANGED portStatus

\* a timer whose callback does not reject
shutdownTimeout_noReject(c) ==
    /\ c \in calls /\ c.pc = "closing"
    /\ UNCHANGED vars

\* the timer of gracefulShutdown fires first: the promise is rejected and
\* stop() returns the error from its catch branch
shutdownTimeout(c) ==
    /\ LoopIdle
    /\ c \in calls /\ c.pc = "closing"
    /\ Settle(c, ServerError("stop", NoPort, "Server shutdown timed out"))
    /\ UNCHANGED <<bound, portStatus>>

\* the continuation after the await on a stop() that was a no-op: it runs
\* after the synchronous code that follows the call
resumeStop(c) ==
    /\ c \in calls /\ c.pc = "settled"
    /\ calls' = Resume(calls, c)
    /\ manager' = Release(c.op)
    /\ returned' = Return(c.op, c.inst, FALSE, c.result, <<>>)
    /\ UNCHANGED <<servers, bound, portStatus>>

\* --------------------------------------------------------- specifications
\* the candidate ports of a configuration
Candidates(config) ==
    {p \in Ports : p >= config.initialPort
                   /\ p < config.initialPort + config.maxPortAttempts}

\* ------------------------------------------------------------ the plugin
\* A NextConfig: its rewrites property and its other properties. The
\* rewrites property is absent, a value or a function; the value, or what the
\* function returns, is an array of rules, an object of groups of rules, or
\* undefined.
Absent == [kind |-> "absent"]
NoConfig == [props |-> "none", rewrites |-> Absent]
EmptyConfig == [props |-> "{}", rewrites |-> Absent]

\* next.config.js passes an empty config, in development
Development == env = "development" /\ nextConfig = EmptyConfig

\* no setup CLI has run, and the files of the project are not looked at
NoExit == -1
NoProject == [dirs |-> {}, exit |-> NoExit, files |-> <<>>]

\* The options and the host are arbitrary; a port that is no candidate of the
\* configuration is never asked for, and is left free.
Fresh ==
    /\ servers = <<>>
    /\ manager = [cleanupRegistered |-> FALSE, server |-> 0]
    /\ calls = {}
    /\ bound = {}
    /\ returned = NoReturn
    /\ response = NoResponse
    /\ process = [exited |-> FALSE, fired |-> "none", handlers |-> [t \in Triggers |-> 0]]
    /\ plugin = [actualPort |-> NoPort, config |-> NoConfig, inst |-> 0,
                 unhandledRejection |-> FALSE]

Init ==
    /\ Fresh
    /\ project = NoProject
    /\ disk = [dir |-> FALSE, file |-> NoFile, readable |-> TRUE, writable |-> TRUE]
    /\ options \in OptionsSet
    /\ Development
    /\ portStatus \in [Ports -> {"free", "inuse", "denied"}]
    /\ \A p \in Ports \ Candidates(buildServerConfig(options)) : portStatus[p] = "free"

\* a gate that looks at NODE_ENV only
Disabled_envOnly(nodeEnv, opts) == nodeEnv # "development"

\* process.env.NODE_ENV !== "development" || options.enabled === false
Disabled(nodeEnv, opts) ==
    \/ nodeEnv # "development"
    \/ ("enabled" \in DOMAIN opts /\ opts.enabled = FALSE)

\* { ...nextConfig, async rewrites() {...} }: the rewrites function closes over
\* config.endpoint and the rewrites of the config it was given
Plugged(config, endpoint) ==
    [config EXCEPT !.rewrites = [endpoint |-> endpoint, kind |-> "plugin",
                                 original |-> config.rewrites]]

\* withDevToolsJSON(nextConfig, options): every evaluation of next.config.js.
\* Outside development, or disabled, it returns the config it was given.
\* Otherwise it builds the configuration from its options, starts the server
\* and returns the config with its rewrites; the callback of the promise of
\* startServer puts the port into actualPort, at once when the promise is
\* settled as startServer returns.
\* startServer(config).then(onFulfilled) has no onRejected and no catch: a
\* rejection of startServer rejects the promise that then returns, which no
\* one handles
Unhandled(result) == result.tag = "rejected"

withDevToolsJSON ==
    IF Disabled(env, options)
      THEN /\ plugin' = [plugin EXCEPT !.config = nextConfig]
           /\ returned' = NoReturn
           /\ process' = Quiet(process)
           /\ UNCHANGED <<servers, manager, calls, bound, portStatus, disk>>
      ELSE LET config == buildServerConfig(options) IN
           /\ startServer(config)
           /\ plugin' =
                 IF returned'.op = "startServer"
                   THEN [actualPort |-> IF returned'.result.tag = "ok"
                                          THEN returned'.result.value
                                          ELSE config.initialPort,
                         config |-> Plugged(nextConfig, config.endpoint), inst |-> 0,
                         unhandledRejection |->
                             plugin.unhandledRejection \/ Unhandled(returned'.result)]
                   ELSE [actualPort |-> config.initialPort,
                         config |-> Plugged(nextConfig, config.endpoint),
                         inst |-> Len(servers'),
                         unhandledRejection |-> plugin.unhandledRejection]

\* cleanupDevToolsServer
cleanupDevToolsServer == stopServer

\* the callback that withDevToolsJSON gave to the promise of its startServer:
\* result.tap((port) => { actualPort = port })
then ==
    plugin' = IF returned'.op # "startServer" THEN plugin
              ELSE IF plugin.inst # 0 /\ returned'.inst = plugin.inst
                THEN [plugin EXCEPT !.actualPort = IF returned'.result.tag = "ok"
                                                     THEN returned'.result.value
                                                     ELSE @,
                                    !.inst = 0,
                                    !.unhandledRejection =
                                        @ \/ Unhandled(returned'.result)]
                ELSE [plugin EXCEPT !.unhandledRejection =
                                        @ \/ Unhandled(returned'.result)]

\* what a step that is no evaluation of next.config.js and no termination
\* trigger leaves alone; the callback of the plugin runs when its start settles
StartFrame ==
    /\ UNCHANGED <<options, env, nextConfig, project>>
    /\ process' = Quiet(process) /\ response' = NoResponse
    /\ then

Frame == StartFrame /\ UNCHANGED disk

\* the program as its exports drive it, and the I/O callbacks
Next ==
    \/ withDevToolsJSON /\ UNCHANGED <<options, env, nextConfig, project>>
                        /\ response' = NoResponse
    \/ cleanupDevToolsServer /\ Frame
    \/ \E c \in calls : BindResult(c) /\ Frame
    \/ \E l \in bound : closeCallback(l) /\ Frame
    \/ \E c \in calls : shutdownTimeout(c) /\ Frame
    \/ \E c \in calls : resumeStop(c) /\ Frame

Spec == Init /\ [][Next]_vars

\* the DevToolsServer class driven through its own methods as well
LifecycleNext ==
    \/ Next
    \/ \E i \in 1..MaxServers : startDirect(i) /\ StartFrame
    \/ \E i \in 1..MaxServers : stopDirect(i) /\ Frame

LifecycleSpec == Init /\ [][LifecycleNext]_vars

\* new DevToolsServer(config, uuidManager) by a caller that holds the instance
construct ==
    /\ Len(servers) < MaxInstances
    /\ servers' = Append(servers, NewServer(buildServerConfig(options)))
    /\ returned' = NoReturn
    /\ UNCHANGED <<manager, calls, bound, portStatus>>

\* the DevToolsServer class alone, driven through its constructor and its
\* methods start and stop
ClassNext ==
    \/ construct /\ Frame
    \/ \E i \in 1..MaxServers : startDirect(i) /\ StartFrame
    \/ \E i \in 1..MaxServers : stopDirect(i) /\ Frame
    \/ \E c \in calls : BindResult(c) /\ Frame
    \/ \E l \in bound : closeCallback(l) /\ Frame
    \/ \E c \in calls : shutdownTimeout(c) /\ Frame
    \/ \E c \in calls : resumeStop(c) /\ Frame

ClassSpec == Init /\ [][ClassNext]_vars

\* the event loop runs every timer that is due and every continuation of a
\* settled promise
LiveSpec ==
    /\ Spec
    /\ WF_vars((\E c \in calls : shutdownTimeout(c)) /\ Frame)
    /\ WF_vars((\E c \in calls : resumeStop(c)) /\ Frame)

\* ------------------------------------------------------ request responder
Methods == {"GET", "POST"}
\* req.url: none, the default endpoint without and with a query, another
\* endpoint, the well-known path and a path that is neither
NoUrl == ""
CustomEndpoint == "/api/devtools"
Urls == {NoUrl, "/__devtools_json", "/__devtools_json?v=1", CustomEndpoint,
         CHROME_DEVTOOLS_PATH, "/favicon.ico"}
Requests == [method : Methods, url : Urls]

\* url.parse(req.url, true).pathname
pathname(reqUrl) == IF reqUrl = "/__devtools_json?v=1" THEN "/__devtools_json" ELSE reqUrl

\* what res.end is given: JSON.stringify of a DevToolsJSON, or a text
Json(root, uuid) == [root |-> root, text |-> "", uuid |-> uuid]
Text(text) == [root |-> "", text |-> text, uuid |-> ""]

\* statusCode, the headers set ("" for a header that is not set) and the body
Response(status, contentType, cors, body) ==
    [allow |-> "", body |-> body, contentType |-> contentType, cors |-> cors,
     status |-> status]

NotFound == Response(404, "", "", Text("Not Found"))

\* a responder that answers every path
Matches_any(path, endpoint) == TRUE

\* parsedUrl.pathname === this.config.endpoint
Matches(path, endpoint) == path = endpoint

\* DevToolsServer.handleRequest
handleRequest(req, endpoint, uuid, projectRoot) ==
    IF req.url = NoUrl
      THEN NotFound
    ELSE IF Matches(pathname(req.url), endpoint)
      THEN Response(200, "application/json", "*", Json(projectRoot, uuid))
      ELSE NotFound

\* a responder that reads the cache file for every request
ServedUuid_reread(l) == trim(disk.file)

\* the uuid argument of the request listener that startServerOnPort creates:
\* the value start() resolved
ServedUuid(l) == l.uuid

\* a request arrives at listener l, which accepts connections until
\* server.close is called
request(l, req) ==
    /\ LoopIdle
    /\ l \in bound /\ ~l.closing
    /\ response' = [inst |-> l.owner, req |-> req,
                    res |-> handleRequest(req, servers[l.owner].config.endpoint,
                                          ServedUuid(l), ProjectRoot)]
    /\ returned' = NoReturn
    /\ process' = Quiet(process)
    /\ UNCHANGED <<servers, manager, calls, bound, portStatus, options, disk>>
    /\ UNCHANGED <<env, nextConfig, plugin, project>>

\* another program, or the user, replaces or deletes the cache file
externalWrite(content) ==
    /\ LoopIdle
    /\ disk.file # content
    /\ disk' = IF content = NoFile
                 THEN [disk EXCEPT !.file = NoFile]
                 ELSE [disk EXCEPT !.dir = TRUE, !.file = content]
    /\ returned' = NoReturn
    /\ response' = NoResponse
    /\ process' = Quiet(process)
    /\ UNCHANGED <<servers, manager, calls, bound, portStatus, options>>
    /\ UNCHANGED <<env, nextConfig, plugin, project>>

\* The options and the cache directory are arbitrary; the port asked for is
\* free.
ServeUuids == {ValidUuid, InvalidUuid, ""}
ServeEndpoints == {CustomEndpoint, CHROME_DEVTOOLS_PATH}
ServeOptionsSet ==
    [endpoint : ServeEndpoints, maxPortAttempts : {1}, port : {MaxPort},
     uuid : ServeUuids]
      \cup [endpoint : ServeEndpoints, maxPortAttempts : {1}, port : {MaxPort}]
      \cup [maxPortAttempts : {1}, port : {MaxPort}, uuid : ServeUuids]
      \cup [maxPortAttempts : {1}, port : {MaxPort}]

DiskStates ==
    {d \in [dir : BOOLEAN, file : {NoFile, CachedUuid, PaddedUuid, Garbage},
            readable : {TRUE}, writable : BOOLEAN] : d.file # NoFile => d.dir}

ServeInit ==
    /\ Fresh
    /\ project = NoProject
    /\ options \in ServeOptionsSet
    /\ Development
    /\ disk \in DiskStates
    /\ portStatus = [p \in Ports |-> "free"]

\* the program while requests arrive and the cache file changes
ServeNext ==
    \/ Next
    \/ \E l \in bound, req \in Requests : request(l, req)
    \/ \E content \in {NoFile, CachedUuid, Garbage} : externalWrite(content)

ServeSpec == ServeInit /\ [][ServeNext]_vars

\* ---------------------------------------------------- identity resolution
\* the identity resolution that returned in this step: the argument it was
\* given, the cache as it found it and its result; fresh says that it wrote
Resolution(op, providedUuid, before, r) ==
    [before |-> before, fresh |-> r.after # before, given |-> providedUuid,
     inst |-> 0, op |-> op, result |-> r.result, tried |-> <<>>]

\* a call of UUIDManager.getOrCreate(process.cwd(), providedUuid): it runs to
\* its end without an await
resolve(providedUuid) ==
    \E uuid \in Generated :
        LET r == getOrCreate(disk, providedUuid, uuid) IN
        /\ disk' = r.after
        /\ returned' = Resolution("getOrCreate", providedUuid, disk, r)
        /\ response' = NoResponse
        /\ process' = Quiet(process)
        /\ UNCHANGED <<servers, manager, calls, bound, portStatus, options>>
        /\ UNCHANGED <<env, nextConfig, plugin, project>>

\* an awaited call of getOrCreateUUID(process.cwd(), providedUuid) of utils.ts
resolveUtil(providedUuid) ==
    \E uuid \in Generated :
        LET r == getOrCreateUUID(disk, providedUuid, uuid) IN
        /\ disk' = r.after
        /\ returned' = Resolution("getOrCreateUUID", providedUuid, disk, r)
        /\ response' = NoResponse
        /\ process' = Quiet(process)
        /\ UNCHANGED <<servers, manager, calls, bound, portStatus, options>>
        /\ UNCHANGED <<env, nextConfig, plugin, project>>

\* The cache of the project as a resolution can find it: no directory, no
\* file, or a file with an identifier, with padding, with other text, with
\* nothing or with bytes that are no text; the file may refuse to be read and
\* the directory to be written.
IdentityContents == {CachedUuid, PaddedUuid, Garbage, Empty, Undecodable}
IdentityDisks ==
    {d \in [dir : BOOLEAN, file : {NoFile} \cup IdentityContents,
            readable : BOOLEAN, writable : BOOLEAN] :
        /\ d.file # NoFile => d.dir
        /\ d.file = NoFile => d.readable}
IdentityOptionsSet ==
    [maxPortAttempts : {1}, port : {MaxPort}, uuid : ServeUuids]
      \cup [maxPortAttempts : {1}, port : {MaxPort}]

IdentityInit ==
    /\ Fresh
    /\ project = NoProject
    /\ options \in IdentityOptionsSet
    /\ Development
    /\ disk \in IdentityDisks
    /\ portStatus = [p \in Ports |-> "free"]

\* the program and the resolutions made in its process, with nothing else
\* that touches the cache
IdentityNext ==
    \/ Next
    \/ \E l \in bound :
          request(l, [method |-> "GET", url |-> servers[l.owner].config.endpoint])
    \/ \E u \in {Undefined} \cup ServeUuids : resolve(u)
    \/ \E u \in {Undefined} \cup ServeUuids : resolveUtil(u)

IdentitySpec == IdentityInit /\ [][IdentityNext]_vars

\* ------------------------------------------- resolutions of several processes
\* Independent Node processes of one project root each run
\* UUIDManager.getOrCreate(root) without a given identifier. A process runs it
\* without a break, but the file system calls of different processes
\* interleave: the read, the open that writeFileSync makes (which creates or
\* truncates the file) and its write. A call in flight is a record of calls
\* whose inst is the process.
Procs == 1..MaxProcs

\* what a file holds that was written into without being replaced
Mixed == "<two identifiers>"

\* a write that adds to what another writer left
Written_appended(content, uuid) == IF content = Empty THEN uuid ELSE Mixed

\* the write of writeFileSync: the 36 characters of the identifier at offset
\* 0 of a file that holds nothing or another identifier
Written(content, uuid) == uuid

Racer(proc, pc, uuid) ==
    [Call("getOrCreate", proc, pc, NoTry, NoResult) EXCEPT !.uuid = uuid]

RaceFrame ==
    /\ response' = NoResponse
    /\ process' = Quiet(process)
    /\ UNCHANGED <<servers, manager, bound, portStatus, options>>
    /\ UNCHANGED <<env, nextConfig, plugin, project>>

\* this.read(uuidPath) of process proc: a hit returns, a miss goes on to
\* createAndPersist
readStep(proc) ==
    /\ \A c \in calls : c.inst # proc
    /\ IF read(disk).tag = "ok"
         THEN /\ returned' = [Resolution("getOrCreate", Undefined, disk,
                                         [after |-> disk, result |-> read(disk)])
                                EXCEPT !.inst = proc]
              /\ calls' = calls
         ELSE /\ returned' = NoReturn
              /\ calls' = calls \cup {Racer(proc, "missed", Undefined)}
    /\ UNCHANGED disk
    /\ RaceFrame

\* createAndPersist up to the open of writeFileSync: mkdirSync, randomUUID,
\* and the open that creates or truncates the file; a throw is returned as
\* the write error
openStep(c) ==
    /\ c \in calls /\ c.pc = "missed"
    /\ IF disk.writable
         THEN \E uuid \in Generated :
                /\ calls' = (calls \ {c}) \cup {Racer(c.inst, "opened", uuid)}
                /\ disk' = [dir |-> TRUE, file |-> Empty, readable |-> Created(disk),
                            writable |-> TRUE]
                /\ returned' = NoReturn
         ELSE /\ calls' = calls \ {c}
              /\ returned' = [Resolution("getOrCreate", Undefined, disk,
                                         [after |-> disk, result |-> UUIDError("write")])
                                EXCEPT !.inst = c.inst]
              /\ UNCHANGED disk
    /\ RaceFrame

\* the write of writeFileSync, and the return of the identifier
writeStep(c) ==
    /\ c \in calls /\ c.pc = "opened"
    /\ disk' = [disk EXCEPT !.file = Written(disk.file, c.uuid)]
    /\ calls' = calls \ {c}
    /\ returned' = [Resolution("getOrCreate", Undefined, disk,
                               [after |-> disk', result |-> Ok(c.uuid)])
                      EXCEPT !.inst = c.inst]
    /\ RaceFrame

RaceInit ==
    /\ Fresh
    /\ project = NoProject
    /\ options = [maxPortAttempts |-> 1, port |-> MaxPort]
    /\ Development
    /\ disk \in IdentityDisks
    /\ portStatus = [p \in Ports |-> "free"]

RaceNext ==
    \/ \E proc \in Procs : readStep(proc)
    \/ \E c \in calls : openStep(c)
    \/ \E c \in calls : writeStep(c)

RaceSpec == RaceInit /\ [][RaceNext]_vars

\* A termination trigger t fires.  The listeners of the event run and are
\* removed (once); the listener is cleanup, which runs stopServer up to its
\* await.  An uncaught exception has no listener of its own: Node reports it
\* and emits exit.  After exit the process is gone, and so it is after a
\* signal that has no listener.  beforeExit is emitted when the event loop
\* has nothing left to wait for.
Event(t) == IF t = "uncaughtException" THEN "exit" ELSE t

Dies(t) == Event(t) = "exit" \/ (t \in Signals /\ process.handlers[t] = 0)

emit(t) ==
    /\ LoopIdle
    /\ t = "beforeExit" => (bound = {} /\ calls = {})
    /\ IF process.handlers[Event(t)] > 0
         THEN stopServer
         ELSE /\ returned' = NoReturn
              /\ UNCHANGED <<servers, manager, calls, bound, portStatus>>
    /\ process' = [exited |-> Dies(t), fired |-> t,
                   handlers |-> [process.handlers EXCEPT ![Event(t)] = 0]]
    /\ response' = NoResponse
    /\ UNCHANGED <<options, disk, env, nextConfig, plugin, project>>

\* the program in a process that receives termination triggers
SupervisorNext ==
    /\ ~process.exited
    /\ \/ Next
       \/ \E t \in Triggers : emit(t)

SupervisorSpec == Init /\ [][SupervisorNext]_vars

\* the event loop runs the timer, the close callback and the continuations
\* as long as the process lives
SupervisorLiveSpec ==
    /\ SupervisorSpec
    /\ WF_vars(~process.exited /\ (\E c \in calls : shutdownTimeout(c)) /\ Frame)
    /\ WF_vars(~process.exited /\ (\E l \in bound : closeCallback(l)) /\ Frame)
    /\ WF_vars(~process.exited /\ (\E c \in calls : resumeStop(c)) /\ Frame)

TypeOK ==
    /\ Len(servers) <= MaxServers
    /\ manager.server \in 0..Len(servers)
    /\ \A c \in calls : c.pc \in {"binding", "closing", "settled"} /\ c.copies >= 1
    /\ Pending(calls) <= MaxCalls

\* ---------------------------------------------------------------- claims
RunningServers == {i \in 1..Len(servers) : servers[i].state.type = "running"}
Listening == {l \in bound : ~l.closing}
IsStart(op) == op \in {"startServer", "start"}

\* this step is a call of startServer: it returns the port of the running
\* instance at once, or it constructs a DevToolsServer
StartServerCalled ==
    \/ Len(servers') = Len(servers) + 1
    \/ returned'.op = "startServer" /\ returned'.inst = 0

\* this step is a call of start() on instance i: it returns at once, or it
\* issues the first bind attempt
StartCalledOn(i) ==
    \/ returned'.op = "start" /\ returned'.inst = i /\ calls' = calls
    \/ /\ Pending(calls') = Pending(calls) + 1
       /\ \E c \in calls' \ calls :
             c.op = "start" /\ c.inst = i /\ c.pc = "binding" /\ c.attempts = 0

\* C1: a startServer call made while the owned instance is running on port q
\* returns ok(q), constructs no DevToolsServer and issues no bind attempt.
C1_IdempotentStart ==
    [][(StartServerCalled /\ manager.server # 0
          /\ servers[manager.server].state.type = "running")
       => /\ returned'.op = "startServer"
          /\ returned'.result.tag = "ok"
          /\ returned'.result.value = servers[manager.server].state.port
          /\ servers' = servers /\ calls' = calls /\ bound' = bound
          /\ manager' = manager]_vars

C1_Witness ==
    /\ returned.op = "startServer" /\ returned.inst = 0 /\ returned.result.tag = "ok"
    /\ manager.server # 0 /\ servers[manager.server].state.type = "running"
    /\ Cardinality(bound) = 1

\* C2: in every reachable state at most one DevToolsServer is running and at
\* most one listener is bound.
C2_SingleLiveInstance ==
    /\ Cardinality(RunningServers) <= 1
    /\ Cardinality(Listening) <= 1

\* C3: a state only moves running -> stopping -> stopped; a stop() that is
\* closing ends with the state stopped and returns ok when the listener has
\* closed, or a ServerError of operation "stop" when the deadline came first;
\* every stopping instance becomes stopped.
C3_StopReachesStopped ==
    /\ [][\A i \in 1..Len(servers) :
             /\ servers[i].state.type = "running"
                  => servers'[i].state.type \in {"running", "stopping"}
             /\ servers[i].state.type = "stopping"
                  => servers'[i].state.type \in {"stopping", "stopped"}]_vars
    /\ [][\A c \in calls :
             (c.pc = "closing" /\ c \notin calls')
             => /\ servers'[c.inst].state.type = "stopped"
                /\ returned'.op = c.op /\ returned'.inst = c.inst
                /\ \/ /\ returned'.result.tag = "ok"
                      /\ ~\E l \in bound' : l.port = c.currentPort
                   \/ /\ returned'.result.tag = "ServerError"
                      /\ returned'.result.operation = "stop"]_vars
    /\ \A i \in 1..MaxServers :
          (i <= Len(servers) /\ servers[i].state.type = "stopping")
             ~> (i <= Len(servers) /\ servers[i].state.type = "stopped")

C3_Witness ==
    /\ returned.op = "stopServer" /\ returned.inst # 0
    /\ returned.result.tag = "ServerError"
    /\ servers[returned.inst].state.type = "stopped"
    /\ \E l \in bound : l.owner = returned.inst /\ l.closing

\* C4: a start() made on an instance that is not idle, or whose earlier
\* start() still awaits its bind, returns a ServerError of operation "start",
\* issues no bind attempt and leaves the state unchanged.
C4_StartOnlyFromIdle ==
    [][\A i \in 1..Len(servers) :
         (StartCalledOn(i)
            /\ (servers[i].state.type # "idle"
                  \/ \E c \in calls : c.inst = i /\ c.pc = "binding"))
         => /\ returned'.op = "start"
            /\ returned'.result.tag = "ServerError"
            /\ returned'.result.operation = "start"
            /\ servers' = servers /\ calls' = calls]_vars

\* C5: while a bind attempt of start() is in flight the state of its instance
\* is starting, with the candidate port being tried.
C5_StartingWhileBinding ==
    \A c \in calls :
        c.pc = "binding"
        => /\ servers[c.inst].state.type = "starting"
           /\ servers[c.inst].state.port = c.currentPort

\* C6: start completes with a Result value and is never rejected; after an
\* error result the instance is not running and holds no listener.
C6_StartReturnsResult ==
    IsStart(returned.op)
    => /\ returned.result.tag # "rejected"
       /\ (returned.result.tag # "ok" /\ returned.inst # 0)
            => /\ servers[returned.inst].state.type # "running"
               /\ ~\E l \in bound : l.owner = returned.inst

\* the configuration of the instance a completed start call worked on
ReturnedConfig == servers[returned.inst].config
StartReturned == IsStart(returned.op) /\ returned.inst # 0

\* the ports tried are initialPort, initialPort + 1, ... and no more than
\* maxPortAttempts of them
TriedInOrder(tried, config) ==
    /\ \A k \in 1..Len(tried) : tried[k] = config.initialPort + k - 1
    /\ Len(tried) = 0 \/ Len(tried) <= config.maxPortAttempts

\* no other DevToolsServer of this process has ever held a port
Alone == Len(servers) = 1

\* the lowest free candidate port, when all candidates below it are in use
LowestFree(config) ==
    {p \in Candidates(config) :
        /\ portStatus[p] = "free"
        /\ \A q \in config.initialPort..(p - 1) : q \in Ports /\ portStatus[q] = "inuse"}

\* C7: the ports are tried in the order initialPort, initialPort + 1, ..., at
\* most maxPortAttempts of them, each after an address-in-use failure of the
\* one before; when a candidate is free and all lower ones are in use, start
\* succeeds with that port; the port of the running state is the port the
\* listener of the instance holds.
C7_PortRetry ==
    /\ \A c \in calls :
          c.pc = "binding" => TriedInOrder(c.tried, servers[c.inst].config)
    /\ StartReturned => TriedInOrder(returned.tried, ReturnedConfig)
    /\ (StartReturned /\ Alone /\ returned.result.tag # "UUIDError"
          /\ LowestFree(ReturnedConfig) # {})
          => /\ returned.result.tag = "ok"
             /\ LowestFree(ReturnedConfig) = {returned.tried[Len(returned.tried)]}
    /\ \A i \in RunningServers :
          \E l \in bound : l.owner = i /\ l.port = servers[i].state.port

\* C8: a PortExhaustedError carries the number of bind attempts made and the
\* last port tried, initialPort + maxPortAttempts - 1, and is not produced
\* when an attempt failed for another reason than address in use.
C8_PortExhausted ==
    (StartReturned /\ returned.result.tag = "PortExhaustedError")
    => /\ returned.result.attempts = Len(returned.tried)
       /\ Len(returned.tried) > 0
       /\ returned.result.lastPort = returned.tried[Len(returned.tried)]
       /\ returned.result.lastPort =
             ReturnedConfig.initialPort + ReturnedConfig.maxPortAttempts - 1
       /\ \A k \in 1..Len(returned.tried) :
             returned.tried[k] \in Ports /\ portStatus[returned.tried[k]] # "denied"

\* a port on which bind fails for another reason than address in use
Denied(port) == port \in Ports /\ portStatus[port] = "denied"

\* C9: after a bind failure that is not address-in-use no further port is
\* tried, and start returns that ServerError (operation "listen", the failing
\* port, the cause) and not a PortExhaustedError, whatever attempts remain.
C9_OtherBindErrorAborts ==
    /\ \A l \in bound : ~Denied(l.port)
    /\ \A c \in calls :
          c.pc = "binding" => \A k \in 1..(Len(c.tried) - 1) : ~Denied(c.tried[k])
    /\ StartReturned
          => /\ \A k \in 1..(Len(returned.tried) - 1) : ~Denied(returned.tried[k])
             /\ (Len(returned.tried) > 0 /\ Denied(returned.tried[Len(returned.tried)]))
                   => returned.result =
                        ServerError("listen", returned.tried[Len(returned.tried)], "EACCES")

C9_Witness ==
    /\ StartReturned
    /\ returned.result.tag = "ServerError" /\ returned.result.operation = "listen"
    /\ Len(returned.tried) >= 1
    /\ ReturnedConfig.maxPortAttempts > Len(returned.tried)

\* C10: a stopServer call returns, and when it returns the manager holds no
\* instance, also while the listener has not finished closing; a startServer
\* made while the manager holds none constructs a DevToolsServer, idle, and
\* starts that one; a stopped instance stays stopped and is not started again.
C10_StopServerReleases ==
    /\ [](returned.op = "stopServer" => manager.server = 0)
    /\ [][(StartServerCalled /\ manager.server = 0)
             => /\ Len(servers') = Len(servers) + 1
                /\ manager'.server = Len(servers')
                /\ servers'[Len(servers')].state.type = "idle"
                /\ \/ returned'.inst = Len(servers')
                   \/ \E c \in calls' : c.inst = Len(servers') /\ c.pc = "binding"]_vars
    /\ [][\A i \in 1..Len(servers) :
             servers[i].state.type = "stopped"
             => /\ servers'[i].state.type = "stopped"
                /\ ~\E c \in calls' : c.inst = i /\ c.pc = "binding"]_vars
    /\ \A i \in 1..MaxServers :
          (\E c \in calls : c.op = "stopServer" /\ c.inst = i)
             ~> (returned.op = "stopServer" /\ returned.inst = i)

C10_Witness ==
    /\ Len(servers) = 2
    /\ servers[1].state.type = "stopped"
    /\ \E l \in bound : l.owner = 1 /\ l.closing
    /\ manager.server = 2
    /\ servers[2].state.type = "running"

\* this step is a call of stop() on instance i, directly or by stopServer:
\* the call suspends at its await
StopCalledOn(i) ==
    /\ Pending(calls') = Pending(calls) + 1
    /\ \E c \in calls' \ calls : c.inst = i /\ c.pc \in {"closing", "settled"}

\* this step resumes the suspended call c
Resumed(c) == Pending(calls') = Pending(calls) - 1 /\ c \notin calls'

\* C11: once the state of an instance is stopped, no call and no late
\* callback moves it to another state; start() on it returns a ServerError
\* of operation "start" and stop() on it is a no-op that returns ok.
C11_StoppedIsTerminal ==
    [][\A i \in 1..Len(servers) :
         servers[i].state.type = "stopped"
         => /\ servers'[i].state.type = "stopped"
            /\ StartCalledOn(i)
                 => /\ returned'.result.tag = "ServerError"
                    /\ returned'.result.operation = "start"
            /\ StopCalledOn(i)
                 => /\ bound' = bound
                    /\ \E c \in calls' \ calls :
                          c.inst = i /\ c.pc = "settled" /\ c.result.tag = "ok"]_vars

\* C12: a stop() made while the instance is not running returns ok, leaves
\* the state of every instance as it was, closes no listener and arms no timer.
C12_StopNoOp ==
    /\ [][\A i \in 1..Len(servers) :
             (StopCalledOn(i) /\ servers[i].state.type # "running")
             => /\ servers' = servers
                /\ bound' = bound
                /\ ~\E c \in calls' \ calls : c.pc = "closing"
                /\ \E c \in calls' \ calls :
                      c.inst = i /\ c.pc = "settled" /\ c.result = Ok(Undefined)]_vars
    /\ [][\A c \in calls :
             (c.pc = "settled" /\ Resumed(c))
             => /\ returned'.op = c.op /\ returned'.inst = c.inst
                /\ returned'.result = Ok(Undefined)
                /\ servers' = servers
                /\ bound' = bound]_vars

C12_Witness ==
    /\ returned.op = "stop" /\ returned.inst # 0
    /\ returned.result.tag = "ok"
    /\ servers[returned.inst].state.type = "stopping"
    /\ \E l \in bound : l.owner = returned.inst /\ l.closing

\* C13: registerCleanupHandlers runs at most once in a process, however many
\* instances are created: handlers are installed only while cleanupRegistered
\* is false, the flag is never reset, and no trigger ever has more than one
\* handler of the supervisor.
C13_HandlersRegisteredOnce ==
    /\ [](\A t \in Triggers : process.handlers[t] <= 1)
    /\ [][(\E t \in Triggers : process'.handlers[t] > process.handlers[t])
             => (~manager.cleanupRegistered /\ manager'.cleanupRegistered)]_vars
    /\ [][manager.cleanupRegistered => manager'.cleanupRegistered]_vars

C13_Witness ==
    /\ Len(servers) = 2
    /\ manager.cleanupRegistered
    /\ process.handlers["SIGINT"] = 0
    /\ process.handlers["exit"] = 1

\* the supervisor owns instance i and it is running
OwnsRunning(i) ==
    i <= Len(servers) /\ manager.server = i /\ servers[i].state.type = "running"

\* C14: whichever termination trigger fires while the supervisor owns a
\* running instance, stopServer is invoked (the instance leaves running), and
\* eventually the instance is stopped and none of its listeners is bound.
C14_TriggerLeadsToShutdown ==
    /\ [][\A i \in 1..MaxServers :
             (OwnsRunning(i) /\ process'.fired # "none")
             => servers'[i].state.type = "stopping"]_vars
    /\ \A i \in 1..MaxServers :
          (process.fired # "none" /\ i <= Len(servers) /\ manager.server = i
             /\ servers[i].state.type \in {"running", "stopping"})
          ~> (/\ i <= Len(servers)
              /\ servers[i].state.type = "stopped"
              /\ ~\E l \in bound : l.owner = i)

\* C15: under several termination triggers server.close is called once on a
\* listener: a trigger that has its handler and finds the owned instance
\* running starts the close of its listener, a close is only ever started on
\* a listener that is not closing yet, and a later trigger changes no state
\* and no listener, and its stopServer returns ok.
C15_CleanupOnce ==
    /\ [][\A i \in 1..MaxServers :
             (OwnsRunning(i) /\ process'.fired # "none"
                /\ process.handlers[Event(process'.fired)] > 0)
             => \E l \in bound :
                   /\ l.owner = i /\ ~l.closing
                   /\ [l EXCEPT !.closing = TRUE] \in bound']_vars
    /\ [][\A c \in calls' \ calls :
             (c.pc = "closing" /\ Pending(calls') = Pending(calls) + 1)
             => \E l \in bound : l.port = c.currentPort /\ ~l.closing]_vars
    /\ [][(process'.fired # "none" /\ ~\E i \in 1..MaxServers : OwnsRunning(i))
             => /\ servers' = servers
                /\ bound' = bound
                /\ \A c \in calls' \ calls : c.pc = "settled" /\ c.result.tag = "ok"
                /\ returned'.op # "none" => returned'.result.tag = "ok"]_vars

C15_Witness ==
    /\ process.fired = "beforeExit"
    /\ process.handlers["SIGINT"] = 0
    /\ returned.op = "stopServer" /\ returned.result.tag = "ok"
    /\ \E i \in 1..Len(servers) : servers[i].state.type = "stopped"

\* ------------------------------------------------- claims on the responder
\* a request was handled in the step that led here
Handled == response.inst # 0
HandledBy(i) == Handled /\ response.inst = i
\* the listeners of instance i that accept connections
Accepting(i) == {l \in bound : l.owner = i /\ ~l.closing}

\* C16: a running instance answers a GET whose path is its configured
\* endpoint with 200, Content-Type application/json, the cross-origin header
\* "*" and a body that holds the project root and the identifier resolved at
\* start; it answers 404 when the request has no URL or its path is neither
\* the endpoint nor the well-known path.
C16_ResponderRouting ==
    \A i \in 1..Len(servers) :
        (HandledBy(i) /\ servers[i].state.type = "running") =>
            LET req == response.req
                res == response.res
                endpoint == servers[i].config.endpoint
            IN
            /\ (req.method = "GET" /\ req.url # NoUrl /\ pathname(req.url) = endpoint)
                   => /\ res.status = 200
                      /\ res.contentType = "application/json"
                      /\ res.cors = "*"
                      /\ res.body.root = ProjectRoot
                      /\ res.body.uuid \in ValidUuids
                      /\ \A l \in Accepting(i) : res.body.uuid = l.uuid
            /\ (req.url = NoUrl
                   \/ pathname(req.url) \notin {endpoint, CHROME_DEVTOOLS_PATH})
                   => res.status = 404

C16_Witness ==
    \E i \in 1..Len(servers) :
        /\ HandledBy(i) /\ servers[i].state.type = "running"
        /\ response.req.method = "GET"
        /\ pathname(response.req.url) = servers[i].config.endpoint
        /\ response.res.status = 200
        /\ Accepting(i) # {}

\* C17: a request with a method other than GET whose path is the configured
\* endpoint or the well-known path is answered 405 with the header
\* Allow: GET.
C17_MethodCheck ==
    \A i \in 1..Len(servers) :
        (/\ HandledBy(i)
         /\ response.req.method # "GET"
         /\ pathname(response.req.url)
               \in {servers[i].config.endpoint, CHROME_DEVTOOLS_PATH})
            => response.res.status = 405 /\ response.res.allow = "GET"

\* C18: a running instance answers a GET on the well-known path exactly as
\* it answers a GET on its configured endpoint: the same status and the same
\* workspace root and uuid.
C18_WellKnownPath ==
    \A i \in 1..Len(servers) :
        (/\ HandledBy(i) /\ servers[i].state.type = "running"
         /\ response.req.method = "GET"
         /\ pathname(response.req.url) = CHROME_DEVTOOLS_PATH)
            => \A l \in Accepting(i) :
                   response.res =
                       handleRequest([method |-> "GET",
                                      url |-> servers[i].config.endpoint],
                                     servers[i].config.endpoint, ServedUuid(l),
                                     ProjectRoot)

\* C19: every 200 response of an instance carries the identifier its
\* listener was created with, the one resolved at start, and that identifier
\* never changes while the listener exists, whatever happens to the cache
\* file.
C19_SameUuidPerInstance ==
    [][/\ \A l \in bound, k \in bound' :
            (l.owner = k.owner /\ l.port = k.port) => l.uuid = k.uuid
       /\ \A i \in 1..Len(servers') :
            (response'.inst = i /\ response'.res.status = 200)
               => /\ Accepting(i)' # {}
                  /\ \A l \in Accepting(i)' : response'.res.body.uuid = l.uuid]_vars

\* an instance that took its identifier from the cache file answers 200 with
\* it after the file was deleted or replaced
C19_Witness ==
    /\ Handled /\ response.res.status = 200
    /\ servers[response.inst].config.uuid \in {Undefined, ""}
    /\ trim(disk.file) # response.res.body.uuid

\* C20: a bind is only attempted with an identifier that was resolved; a
\* start whose identity resolution fails returns the identity error without
\* a bind attempt, and leaves no call waiting and no listener behind; a
\* request is only handled by an instance that is running.
C20_StartOrdering ==
    [][/\ \A c \in calls' : c.pc = "binding" => c.uuid \in ValidUuids
       /\ \A l \in bound' : l.uuid \in ValidUuids
       /\ returned'.result.tag = "UUIDError"
            => /\ returned'.tried = <<>>
               /\ calls' = calls /\ bound' = bound /\ portStatus' = portStatus
               /\ servers'[returned'.inst].state.type = "idle"
       /\ \A i \in 1..Len(servers') :
            response'.inst = i => servers'[i].state.type = "running"]_vars

\* a start returned the identity error: the directory cannot be written and
\* nothing is listening
C20_Witness ==
    /\ returned.op = "startServer" /\ returned.result.tag = "UUIDError"
    /\ returned.result.operation = "write"
    /\ ~disk.writable
    /\ bound = {}

\* ---------------------------------------------------- claims on the identity
\* this step is a startServer that constructs instance i
Constructs(i) == i = Len(servers') /\ Len(servers') = Len(servers) + 1

\* C21: an identifier the caller supplies is returned as it is when it matches
\* the UUID v4 pattern, and the cache is left alone; every supplied value that
\* does not match makes the resolution fail with the validate error, with
\* nothing written, and the start that asked for it returns that error
\* without a bind attempt.
C21_ProvidedPrecedence ==
    [][/\ \A u \in ServeUuids, g \in Generated :
            LET r == getOrCreate(disk, u, g) IN
            /\ r.after = disk
            /\ r.result = IF u \in ValidUuids THEN Ok(u) ELSE UUIDError("validate")
       /\ \A i \in 1..Len(servers') :
            (Constructs(i) /\ servers'[i].config.uuid # Undefined)
               => LET u == servers'[i].config.uuid IN
                  /\ disk' = disk
                  /\ u \in ValidUuids => \A c \in calls' : c.inst = i => c.uuid = u
                  /\ u \notin ValidUuids
                       => /\ returned'.result = UUIDError("validate")
                          /\ calls' = calls /\ bound' = bound]_vars

\* an identifier is given: the option is there and is not the empty string
Given(uuid) == uuid # Undefined /\ uuid # ""

\* C22: an identifier that is given is returned unchanged whatever its shape,
\* without a look at the cache, and it is the workspace.uuid that is served:
\* the start made with it does not fail on the identifier, and every payload
\* of the instance carries it.
C22_ProvidedServedVerbatim ==
    /\ \A u \in ServeUuids, g \in Generated :
          Given(u) => getOrCreateUUID(disk, u, g) = [after |-> disk, result |-> Ok(u)]
    /\ \A i \in 1..Len(servers) :
          Given(servers[i].config.uuid)
             => /\ (IsStart(returned.op) /\ returned.inst = i)
                    => returned.result.tag # "UUIDError"
                /\ (HandledBy(i) /\ response.res.status = 200)
                    => response.res.body.uuid = servers[i].config.uuid

\* r is what a UUIDManager.getOrCreate without a given identifier returned
Resolved(r) == r.op = "getOrCreate" /\ ~Given(r.given)
\* the cache file, where there is one, can be read, and the cache directory
\* can be created and written
Usable(d) == d.readable /\ d.writable

C24_InvalidCacheRecovery ==
    (/\ Resolved(returned)
     /\ returned.before.file # NoFile
     /\ trim(returned.before.file) \notin ValidUuids
     /\ returned.before.writable)
        => /\ returned.result.tag = "ok"
           /\ returned.result.value \in Generated
           /\ returned.result.value \in ValidUuids
           /\ returned.result.value # trim(returned.before.file)
           /\ returned.fresh
           /\ disk.file = returned.result.value

\* the file held bytes that are no text and was overwritten
C24_Witness ==
    /\ Resolved(returned)
    /\ returned.before.file = Undecodable /\ returned.before.readable
    /\ returned.result.tag = "ok"
    /\ disk.file = returned.result.value

\* the cache file holds a UUID v4 that can be read
Holds(d) == d.file # NoFile /\ d.readable /\ trim(d.file) \in ValidUuids

\* C25: once the cache file holds a valid UUID v4, no resolution, start, stop,
\* restart or request changes the file or the directory; a resolution
\* without a given identifier returns the identifier of the file without a
\* write, and every listener and every payload of an instance that was given
\* no identifier carries it.
C25_IdentifierStability ==
    [][Holds(disk)
          => /\ disk' = disk
             /\ Resolved(returned')
                   => (returned'.result = Ok(trim(disk.file)) /\ ~returned'.fresh)
             /\ \A l \in bound' :
                   ~Given(servers'[l.owner].config.uuid) => l.uuid = trim(disk.file)
             /\ \A i \in 1..Len(servers') :
                   (/\ response'.inst = i /\ response'.res.status = 200
                    /\ ~Given(servers'[i].config.uuid))
                      => response'.res.body.uuid = trim(disk.file)]_vars

\* after a restart the second instance serves the identifier of the padded
\* cache file, which is as it was
C25_Witness ==
    /\ HandledBy(2) /\ response.res.status = 200
    /\ ~Given(servers[2].config.uuid)
    /\ disk.file = PaddedUuid
    /\ response.res.body.uuid = CachedUuid

\* r is what a resolution of either implementation returned when it was
\* given no identifier and could not take one from the cache file: the file
\* is missing, cannot be read or holds no UUID v4
Missed(r) ==
    /\ r.op \in {"getOrCreate", "getOrCreateUUID"}
    /\ ~Given(r.given)
    /\ read(r.before).tag # "ok"

\* C26: a failed read is never the error a resolution returns: with a cache
\* that can be written the resolution generates, persists and returns an
\* identifier; a directory that cannot be created or a file that cannot be
\* written is returned as the write error, never as an identifier that was
\* not persisted, and the start that resolves there returns that error
\* without binding.
C26_FailureSurfacing ==
    [][/\ Missed(returned')
          => IF returned'.before.writable
               THEN /\ returned'.result.tag = "ok"
                    /\ returned'.result.value \in Generated
                    /\ disk'.dir /\ disk'.file = returned'.result.value
               ELSE /\ returned'.result
                         \in {UUIDError("write"), Rejected("write")}
                    /\ disk' = returned'.before
       /\ \A i \in 1..Len(servers') :
             (/\ Constructs(i) /\ ~Given(servers'[i].config.uuid)
              /\ read(disk).tag # "ok" /\ ~disk.writable)
                => /\ returned'.op = "startServer" /\ returned'.inst = i
                   /\ returned'.result = UUIDError("write")
                   /\ servers'[i].state.type = "idle"
                   /\ calls' = calls /\ bound' = bound /\ disk' = disk]_vars

\* the file holds other text and cannot be replaced: the write error is
\* returned
C26_Witness ==
    /\ Missed(returned)
    /\ returned.op = "getOrCreate"
    /\ returned.before.file = Garbage /\ ~returned.before.writable
    /\ returned.result = UUIDError("write")

\* C27: on a root whose cache can be read and written, processes that
\* resolve at the same time raise no error; each one that wrote returns the
\* identifier it generated, and the file holds exactly the identifier of the
\* write made last; once no resolution is in flight, the file holds the
\* identifier that was returned last, a UUID v4, and a resolution that starts
\* then returns it and writes nothing.
C27_LastWriteWins ==
    [][Usable(disk)
          => /\ returned'.op = "getOrCreate" => returned'.result.tag = "ok"
             /\ \A c \in calls :
                   (c.pc = "opened" /\ c \notin calls')
                      => /\ returned'.inst = c.inst
                         /\ returned'.result = Ok(c.uuid)
                         /\ disk'.file = c.uuid
             /\ (calls' = {} /\ returned'.op = "getOrCreate")
                   => /\ disk'.file \in ValidUuids \cup {PaddedUuid}
                      /\ returned'.result = Ok(trim(disk'.file))
             /\ (calls = {} /\ Holds(disk) /\ returned'.op = "getOrCreate")
                   => /\ returned'.result = Ok(trim(disk.file))
                      /\ disk' = disk]_vars

\* a process has written and returned its identifier while another one, which
\* had missed and opened the file before that write, is about to write its own
C27_Witness ==
    \E c \in calls :
        /\ c.pc = "opened"
        /\ returned.op = "getOrCreate" /\ returned.fresh
        /\ returned.inst # c.inst
        /\ returned.result = Ok(disk.file)
        /\ disk.file \in Generated /\ disk.file # c.uuid

\* ------------------------------------------------------- claims on the host
\* the names of the loopback interface
Loopback == {"localhost", "127.0.0.1", "::1"}

\* C28: every bind attempt, on the first port and on every port of a retry,
\* is made on the loopback host, and so is every listener that results.
C28_LoopbackOnly ==
    /\ \A c \in calls : c.pc = "binding" => c.host \in Loopback
    /\ \A l \in bound : l.host \in Loopback

\* a retry on the next port is in flight
C28_Witness ==
    \E c \in calls :
        /\ c.pc = "binding" /\ c.attempts >= 1
        /\ c.currentPort = servers[c.inst].config.initialPort + c.attempts
        /\ c.host = "localhost"


\* ------------------------------------------------------------ the rewrites
\* A rewrite rule; a destination is the URL scheme://host:port path
Rule(source, destination) == [destination |-> destination, source |-> source]
Url(scheme, host, port, path) ==
    [host |-> host, path |-> path, port |-> port, scheme |-> scheme]

\* createRewrites
createRewrites(endpoint, port) ==
    <<Rule(endpoint, Url("http", "localhost", port, endpoint)),
      Rule(CHROME_DEVTOOLS_PATH, Url("http", "localhost", port, endpoint))>>

\* What nextConfig.rewrites is, or what it returns: an array of rules, an
\* object of groups of rules, or undefined.
RewritesArray(rules) == [form |-> "array", rules |-> rules]
RewritesObject(groups) == [form |-> "object", groups |-> groups]
RewritesNone == [form |-> "none"]

\* originalRewrites ? await (function ? originalRewrites() : originalRewrites) : []
existingRewrites(originalRewrites) ==
    IF originalRewrites.kind = "absent" THEN RewritesArray(<<>>)
                                         ELSE originalRewrites.result

\* the rules of the plugin after the existing ones
withDevToolsRewrites_appended(devToolsRewrites, existing) ==
    IF existing.form = "array"
      THEN RewritesArray(existing.rules \o devToolsRewrites)
      ELSE IF existing.form = "object"
        THEN RewritesObject(
               [g \in DOMAIN existing.groups \cup {"beforeFiles"} |->
                  IF g = "beforeFiles"
                    THEN (IF "beforeFiles" \in DOMAIN existing.groups
                            THEN existing.groups.beforeFiles ELSE <<>>)
                           \o devToolsRewrites
                    ELSE existing.groups[g]])
        ELSE RewritesArray(devToolsRewrites)

\* what rewrites() of the returned config returns: the rules of the plugin and
\* then the existing ones, in the array or in beforeFiles of the object
withDevToolsRewrites(devToolsRewrites, existing) ==
    IF existing.form = "array"
      THEN RewritesArray(devToolsRewrites \o existing.rules)
      ELSE IF existing.form = "object"
        THEN RewritesObject(
               [g \in DOMAIN existing.groups \cup {"beforeFiles"} |->
                  IF g = "beforeFiles"
                    THEN devToolsRewrites
                           \o (IF "beforeFiles" \in DOMAIN existing.groups
                                 THEN existing.groups.beforeFiles ELSE <<>>)
                    ELSE existing.groups[g]])
        ELSE RewritesArray(devToolsRewrites)

\* Next.js calls rewrites() of the config that withDevToolsJSON returned; the
\* existing rewrites are settled when it awaits them
rewrites ==
    /\ plugin.config.rewrites.kind = "plugin"
    /\ LET closure == plugin.config.rewrites IN
       returned' = [fresh |-> FALSE, inst |-> 0, op |-> "rewrites",
                    result |-> Ok(withDevToolsRewrites(
                                    createRewrites(closure.endpoint, plugin.actualPort),
                                    existingRewrites(closure.original))),
                    tried |-> <<>>]
    /\ process' = Quiet(process)
    /\ response' = NoResponse
    /\ UNCHANGED <<servers, manager, calls, bound, portStatus, options, disk>>
    /\ UNCHANGED <<env, nextConfig, plugin, project>>

\* The rules an application has of its own.
AppRule == Rule("/docs", Url("https", "docs.example.com", 443, "/"))
ApiRule == Rule("/api", Url("http", "localhost", 8080, "/v1"))

\* The configs next.config.js passes: with and without properties of their
\* own, the rewrites absent, a value or a function.
Existing ==
    {RewritesArray(<<>>), RewritesArray(<<AppRule, ApiRule>>),
     RewritesObject([afterFiles |-> <<ApiRule>>, fallback |-> <<AppRule>>]),
     RewritesObject([afterFiles |-> <<ApiRule>>, beforeFiles |-> <<AppRule, ApiRule>>])}
RewritesProps ==
    {Absent}
      \cup {[kind |-> "value", result |-> r] : r \in Existing}
      \cup {[kind |-> "function", result |-> r] : r \in Existing \cup {RewritesNone}}
NextConfigs ==
    [props : {"{}", "{ reactStrictMode: true }"}, rewrites : RewritesProps]

\* NODE_ENV as next dev, next build and next start set it, as a test runner
\* sets it, and unset
NodeEnvs == {"development", "production", "test", Undefined}

PluginOptionsSet ==
    [enabled : BOOLEAN, endpoint : {CustomEndpoint}, maxPortAttempts : {1},
     port : {MaxPort}]
      \cup [enabled : BOOLEAN, maxPortAttempts : {1}, port : {MaxPort}]
      \cup [endpoint : {CustomEndpoint}, maxPortAttempts : {1}, port : {MaxPort}]
      \cup [maxPortAttempts : {1}, port : {MaxPort}]

\* The environment, the config and the options are arbitrary; the port asked
\* for is free or not.
PluginInit ==
    /\ Fresh
    /\ project = NoProject
    /\ disk = [dir |-> FALSE, file |-> NoFile, readable |-> TRUE, writable |-> TRUE]
    /\ options \in PluginOptionsSet
    /\ env \in NodeEnvs
    /\ nextConfig \in NextConfigs
    /\ portStatus \in [Ports -> {"free", "inuse"}]
    /\ \A p \in Ports \ Candidates(buildServerConfig(options)) : portStatus[p] = "free"

\* the program as next.config.js and Next.js drive it
PluginNext ==
    \/ Next
    \/ rewrites

PluginSpec == PluginInit /\ [][PluginNext]_vars

\* the gate of withDevToolsJSON is closed: NODE_ENV is not development, or the
\* options say enabled: false
GateClosed ==
    env # "development" \/ ("enabled" \in DOMAIN options /\ options.enabled = FALSE)

DevToolsRules(rules, endpoint, port) ==
    /\ Len(rules) >= 2
    /\ rules[1].source = endpoint
    /\ rules[2].source = CHROME_DEVTOOLS_PATH
    /\ rules[1].destination = rules[2].destination
    /\ rules[1].destination.host = "localhost"
    /\ rules[1].destination.port = port
    /\ rules[1].destination.path = endpoint

\* a sequence without its first two elements
Rest(rules) == SubSeq(rules, 3, Len(rules))

\* C30: Rewrite composition. In development the config that withDevToolsJSON
\* returns keeps every other property of the config it was given, and its
\* rewrites() yields the two DevTools rules (source the configured endpoint,
\* then source the well-known path, both with the same destination host, port
\* and endpoint path) before all existing rewrites: followed by the existing
\* rules unchanged and in order (array form), or put in front of beforeFiles
\* with the other groups as they were (object form).
C30_RewriteComposition ==
    /\ plugin.config.rewrites.kind = "plugin" =>
           plugin.config.props = nextConfig.props
    /\ returned.op = "rewrites" =>
         LET value == returned.result.value
             endpoint == buildServerConfig(options).endpoint
             original == nextConfig.rewrites
             existing == IF original.kind = "absent" THEN RewritesNone
                                                     ELSE original.result
         IN /\ returned.result.tag = "ok"
            /\ existing.form = "none" =>
                 /\ value.form = "array"
                 /\ DevToolsRules(value.rules, endpoint, plugin.actualPort)
                 /\ Rest(value.rules) = <<>>
            /\ existing.form = "array" =>
                 /\ value.form = "array"
                 /\ DevToolsRules(value.rules, endpoint, plugin.actualPort)
                 /\ Rest(value.rules) = existing.rules
            /\ existing.form = "object" =>
                 /\ value.form = "object"
                 /\ DOMAIN value.groups = DOMAIN existing.groups \cup {"beforeFiles"}
                 /\ DevToolsRules(value.groups.beforeFiles, endpoint, plugin.actualPort)
                 /\ Rest(value.groups.beforeFiles) =
                      IF "beforeFiles" \in DOMAIN existing.groups
                        THEN existing.groups.beforeFiles ELSE <<>>
                 /\ \A g \in DOMAIN existing.groups \ {"beforeFiles"} :
                      value.groups[g] = existing.groups[g]

\* rewrites() of the returned config ran on rewrites in the object form that
\* have rules in beforeFiles and properties of the config beside them, when
\* the server had bound its port
C30_Witness ==
    /\ returned.op = "rewrites"
    /\ nextConfig.props # "{}"
    /\ nextConfig.rewrites.kind = "function"
    /\ nextConfig.rewrites.result.form = "object"
    /\ "beforeFiles" \in DOMAIN nextConfig.rewrites.result.groups
    /\ "endpoint" \in DOMAIN options
    /\ bound # {}

\* C31: Degraded mode. When the server cannot start (identity error, bind
\* error, all ports exhausted, or any other start failure), withDevToolsJSON
\* has still returned a config with its rewrites, the failure reaches the
\* callback of the plugin as an error value, which it logs, and no promise
\* rejection is left unhandled in the host process.
C31_DegradedMode ==
    /\ ~plugin.unhandledRejection
    /\ (returned.op = "startServer" /\ returned.result.tag # "ok")
         => /\ plugin.config.rewrites.kind = "plugin"
            /\ plugin.config.props = nextConfig.props
            /\ returned.result.tag \in {"UUIDError", "ServerError", "PortExhaustedError"}

\* -------------------------------------------------------- the setup CLI
\* bin/setup.js run in the root of a project. A file is the sequence of its
\* lines; the project holds the directories and the files the CLI looks at.
RouterDirs == {"app", "src/app", "pages", "src/pages"}

\* path.join(pagesDir, 'api') / path.join(appDir, 'api', 'devtools-json')
ApiDir(dir) ==
    CASE dir = "app" -> "app/api/devtools-json"
      [] dir = "src/app" -> "src/app/api/devtools-json"
      [] dir = "pages" -> "pages/api"
      [] dir = "src/pages" -> "src/pages/api"

\* path.join(apiDir, 'devtools-json.js') / path.join(apiDir, 'route.js')
RoutePath(dir) ==
    CASE dir = "app" -> "app/api/devtools-json/route.js"
      [] dir = "src/app" -> "src/app/api/devtools-json/route.js"
      [] dir = "pages" -> "pages/api/devtools-json.js"
      [] dir = "src/pages" -> "src/pages/api/devtools-json.js"

PAGES_API_TEMPLATE == <<"export default function handler(req, res) { ... }">>
APP_API_TEMPLATE == <<"export async function GET() { ... }">>

\* the lines of a next.config file
TypeLine == "/** @type {import('next').NextConfig} */"
ConstLine == "const nextConfig = {};"
BlankLine == ""
CommentLine == "// TODO: try withDevToolsJSON"
ExportVariable == "export default nextConfig;"
ExportInline == "export default { reactStrictMode: true };"
ModuleVariable == "module.exports = nextConfig;"
ModuleInline == "module.exports = { reactStrictMode: true };"
importLine == "import withDevToolsJSON from 'next-plugin-devtools-json';"
requireLine == "const withDevToolsJSON = require('next-plugin-devtools-json');"
ExportWrappedVariable == "export default withDevToolsJSON()(nextConfig);"
ExportWrappedInline == "export default withDevToolsJSON()({ reactStrictMode: true });"
ModuleWrappedVariable == "module.exports = withDevToolsJSON()(nextConfig);"
ModuleWrappedInline == "module.exports = withDevToolsJSON()({ reactStrictMode: true });"
ExportPlugged == "export default withDevToolsJSON(nextConfig);"
ModulePlugged == "module.exports = withDevToolsJSON(nextConfig);"

\* String.includes on a line, for the strings the CLI looks for
Includes(line, needle) ==
    CASE needle = "next-plugin-devtools-json" -> line \in {importLine, requireLine}
      [] needle = "withDevToolsJSON" ->
           line \in {importLine, requireLine, CommentLine, ExportWrappedVariable,
                     ExportWrappedInline, ModuleWrappedVariable,
                     ModuleWrappedInline, ExportPlugged, ModulePlugged}
      [] needle = "import " -> line = importLine
      [] needle = "export " ->
           line \in {ExportVariable, ExportInline, ExportWrappedVariable,
                     ExportWrappedInline, ExportPlugged}
      [] needle = "export default" ->
           line \in {ExportVariable, ExportInline, ExportWrappedVariable,
                     ExportWrappedInline, ExportPlugged}
      [] needle = "module.exports" ->
           line \in {ModuleVariable, ModuleInline, ModuleWrappedVariable,
                     ModuleWrappedInline, ModulePlugged}

\* configContent.includes(needle)
includes(content, needle) ==
    \E i \in 1..Len(content) : Includes(content[i], needle)

\* /export\s+default\s+\w+\s*;?\s*$/m and /module\.exports\s*=\s*\w+\s*;?\s*$/m
\* match the line that exports a variable; the patterns with ([^;]+) match
\* the first export
ExportsVariable(line) == line \in {ExportVariable, ModuleVariable}
Exports(line) == Includes(line, "export default") \/ Includes(line, "module.exports")

\* the replacement 'export default withDevToolsJSON()($1);' and its CommonJS twin
Wrapped(line) ==
    CASE line = ExportVariable -> ExportWrappedVariable
      [] line = ExportInline -> ExportWrappedInline
      [] line = ModuleVariable -> ModuleWrappedVariable
      [] line = ModuleInline -> ModuleWrappedInline
      [] OTHER -> line

\* String.replace with a pattern that has no g flag: the first match only;
\* the pattern is the statement of the needle, of a variable when one is asked
replace(content, needle, variable) ==
    LET Pattern(l) == Includes(l, needle) /\ (variable => ExportsVariable(l))
    IN
    IF \E i \in 1..Len(content) : Pattern(content[i])
      THEN LET first == CHOOSE i \in 1..Len(content) :
                            /\ Pattern(content[i])
                            /\ \A j \in 1..(i - 1) : ~Pattern(content[j])
           IN [content EXCEPT ![first] = Wrapped(content[first])]
      ELSE content

\* detectNextJsStructure
detectNextJsStructure(p) ==
    IF "app" \in p.dirs \/ "src/app" \in p.dirs THEN "app"
    ELSE IF "pages" \in p.dirs \/ "src/pages" \in p.dirs THEN "pages"
    ELSE "null"

\* fs.writeFileSync and fs.mkdirSync on the project
writeFileSync(p, file, content) ==
    [p EXCEPT !.files = [f \in DOMAIN p.files \cup {file} |->
                            IF f = file THEN content ELSE p.files[f]]]
mkdirSync(p, dir) == [p EXCEPT !.dirs = @ \cup {dir}]

\* a route that is written whether or not the file exists
route_overwrite(p, dir, template) ==
    writeFileSync(mkdirSync(p, ApiDir(dir)), RoutePath(dir), template)

\* createApiRoute for one router directory: make the api directory, and
\* write the template unless the file exists
route(p, dir, template) ==
    LET made == mkdirSync(p, ApiDir(dir)) IN
    IF RoutePath(dir) \in DOMAIN made.files
      THEN made
      ELSE writeFileSync(made, RoutePath(dir), template)

\* createApiRoute; process.exit(1) when no router directory is found
createApiRoute(p) ==
    LET routerType == detectNextJsStructure(p) IN
    IF routerType = "null" THEN [p EXCEPT !.exit = 1]
    ELSE IF routerType = "pages"
      THEN route(p, IF "src/pages" \in p.dirs THEN "src/pages" ELSE "pages",
                 PAGES_API_TEMPLATE)
      ELSE route(p, IF "src/app" \in p.dirs THEN "src/app" ELSE "app",
                 APP_API_TEMPLATE)

\* findNextConfigFile: the first of the names that exists
possibleConfigs ==
    <<"next.config.js", "next.config.mjs", "next.config.ts", "next.config.cjs">>
findNextConfigFile(p) ==
    IF \E i \in 1..Len(possibleConfigs) : possibleConfigs[i] \in DOMAIN p.files
      THEN possibleConfigs[CHOOSE i \in 1..Len(possibleConfigs) :
               /\ possibleConfigs[i] \in DOMAIN p.files
               /\ \A j \in 1..(i - 1) : possibleConfigs[j] \notin DOMAIN p.files]
      ELSE "null"

defaultConfig ==
    <<requireLine, BlankLine, TypeLine, ConstLine, BlankLine, ModuleWrappedVariable>>

\* Check if plugin is already added
Configured(configContent) ==
    \/ includes(configContent, "next-plugin-devtools-json")
    \/ includes(configContent, "withDevToolsJSON")

\* updateNextConfig: the content written to a config that lacks the plugin
newConfigContent(name, configContent) ==
    LET isESM == \/ name = "next.config.mjs"
                 \/ includes(configContent, "import ")
                 \/ includes(configContent, "export ")
    IN
    IF isESM
      THEN IF includes(configContent, "export default")
             THEN IF \E i \in 1..Len(configContent) :
                        Includes(configContent[i], "export default")
                        /\ ExportsVariable(configContent[i])
                    THEN <<importLine>> \o replace(configContent, "export default", TRUE)
                    ELSE <<importLine>> \o replace(configContent, "export default", FALSE)
             ELSE <<importLine>> \o configContent \o <<BlankLine, ExportWrappedVariable>>
      ELSE IF includes(configContent, "module.exports")
             THEN IF \E i \in 1..Len(configContent) :
                        Includes(configContent[i], "module.exports")
                        /\ ExportsVariable(configContent[i])
                    THEN <<requireLine>> \o replace(configContent, "module.exports", TRUE)
                    ELSE <<requireLine>> \o replace(configContent, "module.exports", FALSE)
             ELSE <<requireLine>> \o configContent \o <<BlankLine, ModuleWrappedVariable>>

\* updateNextConfig
updateNextConfig(p) ==
    LET name == findNextConfigFile(p) IN
    IF name = "null"
      THEN writeFileSync(p, "next.config.js", defaultConfig)
    ELSE IF Configured(p.files[name]) THEN p
    ELSE writeFileSync(p, name, newConfigContent(name, p.files[name]))

\* main: one run of the CLI; a run that exits in createApiRoute goes no further
main ==
    /\ LET routed == createApiRoute([project EXCEPT !.exit = 0]) IN
       project' = IF routed.exit = 1 THEN routed ELSE updateNextConfig(routed)
    /\ returned' = NoReturn
    /\ response' = NoResponse
    /\ process' = Quiet(process)
    /\ UNCHANGED <<servers, manager, calls, bound, portStatus, options, disk>>
    /\ UNCHANGED <<env, nextConfig, plugin>>

\* The projects setup is run in: any router directories, api directories
\* and route files of the project's own in them, and config files with and
\* without the plugin.
OwnRoute == <<"// Existing content">>
ConfigContents(name) ==
    CASE name = "next.config.js" ->
           {<<TypeLine, ConstLine, ModuleVariable>>, <<ModuleInline>>,
            <<ConstLine, ExportVariable>>, <<ExportInline>>, <<ConstLine>>,
            <<requireLine, TypeLine, ConstLine, ModulePlugged>>,
            <<CommentLine, ConstLine, ModuleVariable>>}
      [] name = "next.config.mjs" ->
           {<<ConstLine, ExportVariable>>, <<ConstLine, ModuleVariable>>,
            <<importLine, ConstLine, ExportPlugged>>}
      [] name = "next.config.ts" -> {<<ExportInline>>}
      [] name = "next.config.cjs" -> {<<TypeLine, ConstLine, ModuleVariable>>}
ConfigNames == {possibleConfigs[i] : i \in 1..Len(possibleConfigs)}
ConfigFiles ==
    UNION {{f \in [names -> UNION {ConfigContents(n) : n \in ConfigNames}] :
               \A n \in names : f[n] \in ConfigContents(n)} :
           names \in SUBSET ConfigNames}
\* a router directory is absent, exists, holds its api directory, or holds a
\* route file in it
Layouts == [RouterDirs -> {"absent", "dir", "api", "route"}]
Projects ==
    {[dirs |-> {d \in RouterDirs : layout[d] # "absent"}
                 \cup {ApiDir(d) : d \in {r \in RouterDirs : layout[r] \in {"api", "route"}}},
      exit |-> NoExit,
      files |-> [f \in DOMAIN configs
                         \cup {RoutePath(d) : d \in {r \in RouterDirs : layout[r] = "route"}} |->
                    IF f \in DOMAIN configs THEN configs[f] ELSE OwnRoute]] :
        layout \in Layouts, configs \in ConfigFiles}

SetupInit ==
    /\ Fresh
    /\ Development
    /\ options = [maxPortAttempts |-> 1, port |-> MaxPort]
    /\ disk = [dir |-> FALSE, file |-> NoFile, readable |-> TRUE, writable |-> TRUE]
    /\ portStatus = [p \in Ports |-> "free"]
    /\ project \in Projects

\* the CLI run again and again in the project
SetupNext == main

SetupSpec == SetupInit /\ [][SetupNext]_vars

\* the content names the package or the function of the plugin
ReferencesPlugin(content) ==
    \E i \in 1..Len(content) :
        \/ Includes(content[i], "next-plugin-devtools-json")
        \/ Includes(content[i], "withDevToolsJSON")

\* C32: Setup is idempotent and non-destructive. A run of the setup CLI
\* leaves every next.config file that already references the plugin as it is,
\* line for line, and never overwrites an API route file that exists; and a
\* run in a project in which setup has run before changes no file and no
\* directory.
C32_SetupIdempotent ==
    [][/\ \A f \in ConfigNames \cap DOMAIN project.files :
            ReferencesPlugin(project.files[f])
            => f \in DOMAIN project'.files /\ project'.files[f] = project.files[f]
       /\ \A d \in RouterDirs :
            RoutePath(d) \in DOMAIN project.files
            => /\ RoutePath(d) \in DOMAIN project'.files
               /\ project'.files[RoutePath(d)] = project.files[RoutePath(d)]
       /\ project.exit # NoExit
            => project'.files = project.files /\ project'.dirs = project.dirs]_vars

\* setup has run in a pages project that had a route file of its own and a
\* next.config.js with the plugin
C32_Witness ==
    /\ project.exit = 0
    /\ "pages" \in project.dirs /\ "app" \notin project.dirs
    /\ "src/app" \notin project.dirs /\ "src/pages" \notin project.dirs
    /\ "pages/api/devtools-json.js" \in DOMAIN project.files
    /\ project.files["pages/api/devtools-json.js"] = OwnRoute
    /\ "next.config.js" \in DOMAIN project.files
    /\ project.files["next.config.js"] = <<requireLine, TypeLine, ConstLine, ModulePlugged>>

\* C33: No orphaned listener. Under every interleaving of startServer and
\* stopServer, every bound listener belongs to the instance that the manager
\* references; a stopServer that clears the reference clears the reference to
\* the instance it stopped; and an instance becomes running only while the
\* manager references it.
C33_NoOrphanedListener ==
    [][/\ \A l \in bound' : l.owner = manager'.server
       /\ (returned'.op = "stopServer" /\ manager.server # 0 /\ manager'.server = 0)
            => returned'.inst = manager.server
       /\ \A i \in 1..Len(servers) :
            (servers[i].state.type # "running" /\ servers'[i].state.type = "running")
            => manager'.server = i]_vars

\* C34: A successful stopServer means stopped. Whenever a stopServer (or
\* cleanupDevToolsServer) call returns ok, the instance that the manager
\* referenced when the call was made is stopped, or idle with no bind in
\* flight, and no listener of it is bound; also when the call overlapped
\* another stopServer or a startServer in flight.
C34_StopSuccessMeansStopped ==
    (returned.op = "stopServer" /\ returned.result.tag = "ok" /\ returned.inst # 0)
    => /\ \/ servers[returned.inst].state.type = "stopped"
          \/ /\ servers[returned.inst].state.type = "idle"
             /\ ~\E c \in calls : c.inst = returned.inst /\ c.pc = "binding"
       /\ ~\E l \in bound : l.owner = returned.inst

\* the program with the rewrites of the returned config evaluated at any time
ForwardNext ==
    \/ Next
    \/ rewrites

ForwardSpec == Init /\ [][ForwardNext]_vars

\* the ports that the rules of a rewrites() result forward to
ForwardedPorts(value) ==
    IF value.form = "array"
      THEN {value.rules[i].destination.port : i \in 1..2}
      ELSE {value.groups.beforeFiles[i].destination.port : i \in 1..2}

\* a listener of this process accepts connections on the port
ListeningOn(listeners, port) == \E l \in listeners : l.port = port /\ ~l.closing

\* C35: Bound-port propagation. When startServer succeeds with port q for
\* the call of withDevToolsJSON that returned the config, q is the port that
\* is bound, also after retries and when an instance was already running;
\* from then on every evaluation of the config's rewrites() yields
\* destinations on port q; and while an instance is running, the port that
\* rewrites() forwards to is one on which a listener accepts connections.
C35_BoundPortPropagation ==
    [][/\ (/\ returned'.op = "startServer" /\ returned'.result.tag = "ok"
           /\ (returned'.inst = 0 \/ returned'.inst = plugin.inst))
            => /\ plugin'.actualPort = returned'.result.value
               /\ ListeningOn(bound', returned'.result.value)
       /\ returned'.op = "rewrites"
            => ForwardedPorts(returned'.result.value) = {plugin.actualPort}
       /\ (plugin.inst = 0 /\ Len(servers') = Len(servers)
                           /\ returned'.op # "startServer")
            => plugin'.actualPort = plugin.actualPort
       /\ (/\ plugin'.config.rewrites.kind = "plugin" /\ plugin'.inst = 0
           /\ \E i \in 1..Len(servers') : servers'[i].state.type = "running")
            => ListeningOn(bound', plugin'.actualPort)]_vars

\* ------------------------------------------------- changing configuration
\* next.config.js is edited: the next evaluation passes other options
editOptions(o) ==
    /\ o # options
    /\ options' = o
    /\ returned' = NoReturn
    /\ response' = NoResponse
    /\ process' = Quiet(process)
    /\ UNCHANGED <<servers, manager, calls, bound, portStatus, disk>>
    /\ UNCHANGED <<env, nextConfig, plugin, project>>

\* Options that differ in every field of the configuration, and options
\* whose identifier makes the start fail.
ConfigOptionsSet ==
    {[endpoint |-> CustomEndpoint, maxPortAttempts |-> 1, port |-> MaxPort,
      shutdownTimeoutMs |-> 1000, uuid |-> ValidUuid],
     [maxPortAttempts |-> 1, port |-> MaxPort - 1],
     [maxPortAttempts |-> 1, port |-> MaxPort, uuid |-> InvalidUuid]}

ConfigInit ==
    /\ Fresh
    /\ project = NoProject
    /\ Development
    /\ disk = [dir |-> FALSE, file |-> NoFile, readable |-> TRUE, writable |-> TRUE]
    /\ options \in ConfigOptionsSet
    /\ portStatus \in [Ports -> {"free", "inuse"}]

\* the program while next.config.js changes between its evaluations
ConfigNext ==
    \/ Next
    \/ \E o \in ConfigOptionsSet : editOptions(o)

ConfigSpec == ConfigInit /\ [][ConfigNext]_vars

\* C36: The configuration of a lifecycle instance is immutable. No step
\* changes the configuration of an instance; a startServer(config') made while
\* the instance of the manager is running returns its port and leaves the
\* instances, their listeners (port and served uuid) and the reference as
\* they are; and an instance is constructed only when no instance is running
\* for the manager, with the configuration of the call that constructs it.
C36_ConfigImmutable ==
    [][/\ \A i \in 1..Len(servers) : servers'[i].config = servers[i].config
       /\ (returned'.op = "startServer" /\ returned'.inst = 0)
            => /\ manager.server # 0
               /\ servers[manager.server].state.type = "running"
               /\ returned'.result = Ok(servers[manager.server].state.port)
               /\ servers' = servers /\ bound' = bound /\ manager' = manager
       /\ Len(servers') > Len(servers)
            => /\ manager.server # 0
                    => servers[manager.server].state.type # "running"
               /\ servers'[Len(servers')].config = buildServerConfig(options)
               /\ manager'.server = Len(servers')]_vars

\* after a first instance was given up, a second one runs with another
\* configuration, and a startServer with a third configuration has just
\* been answered with its port
C36_Witness ==
    /\ Len(servers) = 2
    /\ servers[1].config # servers[2].config
    /\ servers[1].state.type \in {"idle", "stopped"}
    /\ manager.server = 2
    /\ servers[2].state.type = "running"
    /\ returned.op = "startServer" /\ returned.inst = 0
    /\ buildServerConfig(options) # servers[2].config


\* ------------------------------------------------- the Result combinators
\* what a method of a Result did: the arguments its callback was invoked
\* with, in order, and the Result it returned
Did(invoked, result) == [invoked |-> invoked, result |-> result]

\* the callbacks handed to map, andThen, tap and tapErr, by name
MapCallbacks == {"trim", "constant"}
ChainCallbacks == {"validate", "fail", "succeed"}
Callback(fn, value) ==
    CASE fn = "trim" -> trim(value)
      [] fn = "constant" -> ValidUuid
      [] fn = "validate" -> validate(value)
      [] fn = "fail" -> UUIDError("write")
      [] fn = "succeed" -> Ok(CachedUuid)
      [] fn = "log" -> value

\* a chaining that invokes its callback whatever the Result is
andThen_eager(result, fn) ==
    LET value == IF result.tag = "ok" THEN result.value ELSE Undefined
    IN  Did(<<value>>, Callback(fn, value))

\* OkImpl.map, ErrImpl.map
map(result, fn) ==
    IF result.tag = "ok"
      THEN Did(<<result.value>>, Ok(Callback(fn, result.value)))
      ELSE Did(<<>>, result)

\* OkImpl.andThen, ErrImpl.andThen
andThen(result, fn) ==
    IF result.tag = "ok"
      THEN Did(<<result.value>>, Callback(fn, result.value))
      ELSE Did(<<>>, result)

\* OkImpl.tap, ErrImpl.tap
tap(result, fn) ==
    IF result.tag = "ok"
      THEN Did(<<result.value>>, result)
      ELSE Did(<<>>, result)

\* OkImpl.tapErr, ErrImpl.tapErr; the error of an Err is the Result itself
tapErr(result, fn) ==
    IF result.tag = "ok"
      THEN Did(<<>>, result)
      ELSE Did(<<result>>, result)

\* the run of the function handed to tryCatch: it returns a value or throws
Returns(value) == [error |-> "none", thrown |-> FALSE, value |-> value]
Throws(error) == [error |-> error, thrown |-> TRUE, value |-> "none"]

\* an exception taken for the error as it is (error as Err)
Raw(error) == [cause |-> error, tag |-> "Error"]

\* the mapError handed to tryCatch, by the operation of the UUIDError it
\* builds; "none" when the argument is left out
ErrorMappers == {"none", "read", "write"}
MapError(mapError, error) == UUIDError(mapError)

\* tryCatch: ok(fn()) when fn returns; when it throws, the catch block wraps
\* mapError(error), or the exception itself when no mapError is given
tryCatch(fn, mapError) ==
    IF ~fn.thrown
      THEN Ok(fn.value)
      ELSE IF mapError # "none" THEN MapError(mapError, fn.error)
                                ELSE Raw(fn.error)

\* the function UUIDManager.read hands to tryCatch
readFile(d) ==
    IF d.file = NoFile
      THEN Throws("UUID file does not exist")
      ELSE IF ~d.readable THEN Throws("EACCES") ELSE Returns(trim(d.file))

\* UUIDManager.read as it is written: tryCatch(...).andThen(validate)
readChain(d) == andThen(tryCatch(readFile(d), "read"), "validate")

\* the Results, the runs and the cache files the methods are applied to
ResultValues == Contents \cup {ValidUuid, Empty, Undecodable}
ResultErrors ==
    {UUIDError("read"), UUIDError("write"), UUIDError("validate"),
     ServerError("listen", MaxPort, "EADDRINUSE"),
     PortExhaustedError(1, MaxPort)}
Results == {Ok(v) : v \in ResultValues} \cup ResultErrors
Runs == {Returns(v) : v \in ResultValues}
          \cup {Throws(e) : e \in {"ENOENT", "EACCES"}}
CacheFiles ==
    {d \in [dir : BOOLEAN, file : {NoFile, CachedUuid, PaddedUuid, Garbage},
            readable : BOOLEAN, writable : {TRUE}] : d.file # NoFile => d.dir}

\* a method applied to a Result leaves the program as it is
Applied(op, given, fn, did) ==
    /\ returned' = [fn |-> fn, fresh |-> FALSE, given |-> given, inst |-> 0,
                    invoked |-> did.invoked, op |-> op, result |-> did.result,
                    tried |-> <<>>]
    /\ UNCHANGED <<servers, manager, calls, bound, portStatus, options,
                   process, disk, response, env, nextConfig, plugin, project>>

call_map ==
    \E result \in Results, fn \in MapCallbacks :
        Applied("map", result, fn, map(result, fn))

call_andThen ==
    \E result \in Results, fn \in ChainCallbacks :
        Applied("andThen", result, fn, andThen(result, fn))

call_tap ==
    \E result \in Results :
        Applied("tap", result, "log", tap(result, "log"))

call_tapErr ==
    \E result \in Results :
        Applied("tapErr", result, "log", tapErr(result, "log"))

call_tryCatch ==
    \E fn \in Runs, mapError \in ErrorMappers :
        Applied("tryCatch", fn, mapError,
                Did(<<>>, tryCatch(fn, mapError)))

call_read ==
    \E d \in CacheFiles : Applied("read", d, "validate", readChain(d))

ResultInit ==
    /\ Fresh
    /\ project = NoProject
    /\ Development
    /\ disk = [dir |-> FALSE, file |-> NoFile, readable |-> TRUE, writable |-> TRUE]
    /\ options = [port |-> MaxPort]
    /\ portStatus = [p \in Ports |-> "free"]

ResultNext ==
    \/ call_map
    \/ call_andThen
    \/ call_tap
    \/ call_tapErr
    \/ call_tryCatch
    \/ call_read

ResultSpec == ResultInit /\ [][ResultNext]_vars

\* the cache file whose read fails: it is missing or cannot be read
ReadFails(d) == d.file = NoFile \/ ~d.readable

\* C37: Result combinators preserve the error channel. On an Err, map,
\* andThen and tap do not invoke their callback and return the Err with the
\* same error, and tapErr invokes its callback once, with the error, and
\* returns the same Result. On an Ok, andThen invokes its callback once and
\* returns exactly its Result, tap invokes its callback once and returns the
\* same Ok, and tapErr invokes nothing and returns the same Ok. tryCatch
\* returns Ok of the value of a function that returns and the mapped exception
\* of one that throws, always a Result. A failed read of the cache file never
\* invokes validate and is the UUIDError of operation "read", and every read
\* is the Result UUIDManager.read is taken to give.
C37_ErrorChannel ==
    /\ (returned.op \in {"map", "andThen", "tap"} /\ returned.given.tag # "ok")
         => /\ returned.invoked = <<>>
            /\ returned.result = returned.given
    /\ (returned.op = "tapErr" /\ returned.given.tag # "ok")
         => /\ returned.invoked = <<returned.given>>
            /\ returned.result = returned.given
    /\ (returned.op = "andThen" /\ returned.given.tag = "ok")
         => /\ returned.invoked = <<returned.given.value>>
            /\ returned.result = Callback(returned.fn, returned.given.value)
    /\ (returned.op = "tap" /\ returned.given.tag = "ok")
         => /\ returned.invoked = <<returned.given.value>>
            /\ returned.result = returned.given
    /\ (returned.op = "tapErr" /\ returned.given.tag = "ok")
         => /\ returned.invoked = <<>>
            /\ returned.result = returned.given
    /\ returned.op = "tryCatch"
         => /\ returned.result.tag \in {"ok", "UUIDError", "Error"}
            /\ ~returned.given.thrown
                 => returned.result = Ok(returned.given.value)
            /\ returned.given.thrown
                 => returned.result =
                        IF returned.fn = "none"
                          THEN Raw(returned.given.error)
                          ELSE UUIDError(returned.fn)
    /\ returned.op = "read"
         => /\ returned.result = read(returned.given)
            /\ ReadFails(returned.given)
                 => /\ returned.invoked = <<>>
                    /\ returned.result = UUIDError("read")

\* a cache file that cannot be read was read: validate was never invoked
C37_Witness ==
    /\ returned.op = "read"
    /\ returned.given.file = Garbage
    /\ ~returned.given.readable
    /\ returned.invoked = <<>>
    /\ returned.result = UUIDError("read")

====
